---- MODULE Spec2Model ----
(***************************************************************************)
(* A model of the ringnet peer runtime (lib/peer.js): the HELO/TRUSTED     *)
(* handshake, the per-connection AES session, the discovery queue with     *)
(* gossip intake, and broadcast with confirmation and retry.               *)
(*                                                                         *)
(* Every peer is a single-threaded event loop, so one action of the model  *)
(* is one event handler of one peer, run to completion, with every         *)
(* synchronous call it makes (discover, broadcast, getPeerList, emit).     *)
(* The websocket transport is the ordered text-frame channel of the        *)
(* specification: each endpoint has an inbox of frames in send order.      *)
(*                                                                         *)
(* Values.  A public key is a number (PublicKey), a ring signature is the  *)
(* number RingSignature(key); its base64 text on the wire is a number too  *)
(* (ToBase64), with a second, non-canonical text that decodes to the same  *)
(* bytes.  RSA and AES are symbolic: a ciphertext records the key it was   *)
(* made with and opens only with the matching key.  The created/active     *)
(* timestamps of a peer-table row are left out; no handler branches on     *)
(* them.  Addresses are modelled after the "::ffff:" strip.                *)
(***************************************************************************)
EXTENDS Integers, Sequences, FiniteSets, TLC

\* ---------------------------------------------------------------- bounds
NPeers == 3          \* honest ring members 1..NPeers
MaxConns == 3        \* connections ever opened in one behaviour
MaxIntrusions == 2   \* connections the outsider may open in one behaviour
MaxForged == 2       \* handshake frames the outsider may inject in one behaviour
MaxInjected == 1     \* session frames the outsider may inject in one behaviour
MaxDrops == 1        \* sockets lost in one behaviour
MaxCloses == 1       \* close() calls by applications in one behaviour
MaxKills == 1        \* processes killed in one behaviour
MaxWriteErrors == 1  \* failed transport writes in one behaviour
MaxWritten == 4      \* frames one end of a connection writes in a PEERS exchange
MaxBroadcasts == 2   \* application broadcasts in one behaviour
MaxRetries == 1      \* retry-timer rebroadcasts in one behaviour

Honest == 1 .. NPeers

\* -------------------------------------------------------------- constants
Null == 0
Mallory == Null      \* owner of an endpoint held by a party outside the ring
NormalClosure == 1000
AbnormalClosure == NormalClosure + 6
Host == "127.0.0.1"

PortOf(p) == 26780 + p
EphemeralPort(c) == 50000 + c
PublicKey(o) == 100 + o
BadKey == 0 - 1
RingMembers == { PublicKey(p) : p \in Honest }
RingSignature(pk) == 100 + pk
Signature(p) == RingSignature(PublicKey(p))

\* Buffer.toString('base64') and new Buffer(text, 'base64'): the decoder is
\* lenient, so a second text (NonCanonical) decodes to the same bytes.
ToBase64(b) == b
NonCanonical(b) == 1000 + b
FromBase64(w) == w % 1000

\* ringPublicKey.verify(publicKey, signature)
RingVerify(pk, sig) == pk \in RingMembers /\ sig = RingSignature(pk)

\* NodeRSA encrypt/decrypt and sign/verify, symbolically.
RsaEncrypt(pk, v) == [to |-> pk, val |-> v]
RsaCanDecrypt(p, c) == c.to = PublicKey(p)
NoCipher == RsaEncrypt(Null, Null)      \* a body without the property
RsaSign(p, data) == [by |-> PublicKey(p), over |-> data]
RsaVerify(pk, data, sig) == sig.by = pk /\ sig.over = data

\* aes-256-cbc: a body is a text under a stack of encryption layers.
PlainBody(text) == [text |-> text, layers |-> <<>>]
AesEncrypt(key, iv, body) == [body EXCEPT !.layers = Append(@, <<key, iv>>)]
AesCanDecrypt(key, iv, body) ==
  /\ Len(body.layers) > 0
  /\ body.layers[Len(body.layers)] = <<key, iv>>
\* A decryption that returns its input.
AesKeep(key, iv, body) == body

AesDecrypt(key, iv, body) == [body EXCEPT !.layers = SubSeq(@, 1, Len(@) - 1)]

\* crypto.randomBytes: the n-th session key (iv) drawn for endpoint e.
FreshKey(e, n) == 100 * e + n
FreshIv(e, n) == 100 * e + 50 + n

\* ------------------------------------------------------------- addresses
NoPort == Null
Address(proto, port) == [proto |-> proto, host |-> Host, port |-> port]
NoAddress == [proto |-> FALSE, host |-> "", port |-> NoPort]
NoMeta == [src |-> 0, trusted |-> FALSE]
Candidate(addr, sig) == [address |-> addr, signature |-> sig, meta |-> NoMeta]

\* url.format(parsedAddress): always scheme://host:port
FormatParsed(addr, port) == [proto |-> TRUE, host |-> addr.host, port |-> port]
HasColon(addr) == addr.proto \/ addr.port # NoPort

VARIABLES
  cfg,                 \* per peer: constructor options
  ep,                  \* endpoints: 2c-1 is the dialing side of connection c, 2c the accepting side
  peers,               \* per peer: self.peers, endpoint ids in push order
  discoveryAddresses,  \* per peer: self.discoveryAddresses
  discovering,         \* per peer: self.discovering
  dials,               \* outbound client.connect calls not yet answered
  timers,              \* pending setTimeout callbacks (retry, discovery restart)
  emitted,             \* per peer: bag of events emitted so far
  net,                 \* per connection: "up" or "down" (the socket was lost)
  known,               \* ring members whose HELO the outsider has received
  life,                \* per peer: "new" (constructed, discovery not begun), "ready", "closed"
  clock,               \* per peer: number of PeerMessages it has constructed
  used                 \* what has been used of the bounds

vars == <<cfg, ep, peers, discoveryAddresses, discovering, dials, timers,
          emitted, net, known, life, clock, used>>

Remote(e) == IF e % 2 = 1 THEN e + 1 ELSE e - 1
ConnOf(e) == (e + 1) \div 2
Endpoints == 1 .. Len(ep)
Up(e) == ep[e].up /\ ep[e].owner # Mallory

NewEndpoint(o) ==
  [owner |-> o, up |-> FALSE, sock |-> "open",
   connected |-> FALSE, trusted |-> FALSE,
   peerPublicKey |-> Null, peerPublicKeySignature |-> Null,
   key |-> Null, iv |-> Null, peerKey |-> Null, peerIv |-> Null,
   requireConfirmation |-> FALSE,
   originalAddress |-> NoAddress, originalPort |-> NoPort,
   unconfirmedMessages |-> <<>>, inbox |-> <<>>, gen |-> 0,
   wrote |-> <<>>, acked |-> {}, dropped |-> 0, threw |-> FALSE]

\* ----------------------------------------------------------------- events
Event(name, e, body) == [name |-> name, conn |-> e, body |-> body]
NoBody == PlainBody("")
Emit(bag, ev) ==
  IF ev \in DOMAIN bag THEN [bag EXCEPT ![ev] = @ + 1] ELSE bag @@ (ev :> 1)
Count(bag, ev) == IF ev \in DOMAIN bag THEN bag[ev] ELSE 0
RECURSIVE EmitAll(_, _)
EmitAll(bag, evs) ==
  IF evs = <<>> THEN bag ELSE EmitAll(Emit(bag, Head(evs)), Tail(evs))

\* ------------------------------------------------------ peer-table queries
\* A peer that never recognises its own signature.
isOwnSignatureNever(p, s) == FALSE

isOwnSignature(p, s) ==
  IF s = Null THEN FALSE ELSE s = ToBase64(Signature(p))

inDiscoveryAddresses(queue, cand) ==
  \E i \in 1 .. Len(queue) : queue[i] = cand

isConnectedTo(p, cand) ==
  \/ ToBase64(Signature(p)) = cand.signature
  \/ \E i \in 1 .. Len(peers[p]) :
       /\ ep[peers[p][i]].peerPublicKeySignature # Null
       /\ ToBase64(ep[peers[p][i]].peerPublicKeySignature) = cand.signature

\* One row of getPeerList for endpoint e.
PeerListEntry(eps, e) ==
  [address |-> IF HasColon(eps[e].originalAddress)
               THEN eps[e].originalAddress
               ELSE [eps[e].originalAddress EXCEPT !.port = eps[e].originalPort],
   signature |-> ToBase64(eps[e].peerPublicKeySignature),
   meta |-> [src |-> e, trusted |-> eps[e].trusted]]

RECURSIVE PeerListFrom(_, _, _)
PeerListFrom(eps, rows, signaturesToOmit) ==
  IF rows = <<>> THEN <<>>
  ELSE LET e == Head(rows)
           rest == PeerListFrom(eps, Tail(rows), signaturesToOmit)
       IN IF /\ eps[e].peerPublicKeySignature # Null
             /\ ToBase64(eps[e].peerPublicKeySignature) \notin signaturesToOmit
          THEN <<PeerListEntry(eps, e)>> \o rest
          ELSE rest

getPeerList(eps, p, signaturesToOmit) ==
  PeerListFrom(eps, peers[p], signaturesToOmit)

\* ------------------------------------------------------------- transport
\* connection.sendUTF on endpoint e: the frame joins the remote inbox unless
\* the socket is lost, the remote end has finished closing, or the remote
\* end is the outsider (who keeps no inbox; what it has seen is in `known`).
NetUp(c) == c > Len(net) \/ net[c] = "up"

Send(eps, e, frame) ==
  IF /\ NetUp(ConnOf(e))
     /\ eps[Remote(e)].sock # "closed"
     /\ eps[Remote(e)].owner # Mallory
  THEN [eps EXCEPT ![Remote(e)].inbox = Append(@, frame)]
  ELSE eps

HeloFrame(p) ==
  [type |-> "HELO",
   body |-> [publicKey |-> PublicKey(p), signature |-> ToBase64(Signature(p))]]

\* What a HELO body is to its receiver once the sender has encrypted it: a
\* string, in which no key and no signature are found.
Unreadable == [publicKey |-> BadKey, signature |-> Null]

\* setupConnection: the endpoint joins the peer table untrusted and the HELO
\* is sent.  (The push onto self.peers is done by the calling action.)
setupConnection(eps, e, addr, port) ==
  Send([eps EXCEPT ![e].up = TRUE, ![e].trusted = FALSE,
                   ![e].connected = TRUE,
                   ![e].unconfirmedMessages = <<>>,
                   ![e].requireConfirmation = FALSE,
                   ![e].originalAddress = addr,
                   ![e].originalPort = port],
       e, HeloFrame(eps[e].owner))

\* ------------------------------------------------------------- discovery
\* The synchronous part of a discovery chain works on a record
\* [queue, dials, events]: the queue, the client.connect calls started and
\* the events emitted, in order.
ValidRange(r) == Len(r) = 2 /\ r[1] <= r[2]

\* A port expansion that keeps every port of the range.
RECURSIVE ExpandAll(_, _, _, _, _)
ExpandAll(p, queue, peerToDiscover, i, hi) ==
  IF i > hi THEN queue
  ELSE ExpandAll(p, Append(queue, Candidate(FormatParsed(peerToDiscover.address, i),
                                            peerToDiscover.signature)),
                 peerToDiscover, i + 1, hi)

RECURSIVE ExpandPorts(_, _, _, _, _)
ExpandPorts(p, queue, peerToDiscover, i, hi) ==
  IF i > hi THEN queue
  ELSE LET d == Candidate(FormatParsed(peerToDiscover.address, i),
                          peerToDiscover.signature)
           fresh == /\ ~inDiscoveryAddresses(queue, d)
                    /\ ~isConnectedTo(p, d)
                    /\ ~isOwnSignature(p, d.signature)
       IN ExpandPorts(p, IF fresh THEN Append(queue, d) ELSE queue,
                      peerToDiscover, i + 1, hi)

\* Lines 305-361: the queue after the expansion of a port-less candidate,
\* over self.range if it is a valid range and onto self.port otherwise.
Expansion(p, queue, peerToDiscover) ==
  IF ValidRange(cfg[p].range)
  THEN ExpandPorts(p, queue, peerToDiscover, cfg[p].range[1], cfg[p].range[2])
  ELSE ExpandPorts(p, queue, peerToDiscover, PortOf(p), PortOf(p))

RECURSIVE discoverOne(_, _)
RECURSIVE next(_, _)
next(p, ds) ==
  IF Len(ds.queue) > 0 THEN discoverOne(p, ds)
  ELSE [ds EXCEPT !.events = Append(@, "discovered")]

discoverOne(p, ds) ==
  LET peerToDiscover == Head(ds.queue)
      popped == [ds EXCEPT !.queue = Tail(@)]
      \* line 249: next() is called and the function goes on
      d1 == IF isConnectedTo(p, peerToDiscover) THEN next(p, popped) ELSE popped
      hasPort == peerToDiscover.address.port # NoPort
  IN IF ~hasPort
     THEN next(p, [d1 EXCEPT !.queue = Expansion(p, @, peerToDiscover)])
     ELSE [d1 EXCEPT !.dials =
             Append(@, [from |-> p, peerToDiscover |-> peerToDiscover,
                        parsedAddress |-> FormatParsed(peerToDiscover.address,
                                                       peerToDiscover.address.port),
                        conn |-> Null])]

\* discover(): returns the chain record plus the new value of self.discovering.
discover(p, queue, flag) ==
  IF Len(queue) < 1
  THEN [queue |-> queue, dials |-> <<>>, events |-> <<"discovered">>,
        discovering |-> FALSE]
  ELSE LET ds == discoverOne(p, [queue |-> queue, dials |-> <<>>,
                                 events |-> <<"discovering">>])
       IN [queue |-> ds.queue, dials |-> ds.dials, events |-> ds.events,
           discovering |-> TRUE]

Named(p, names) == [i \in 1 .. Len(names) |-> Event(names[i], Null, NoBody)]

\* The peer listening at an address, if any.
ListenerAt(addr) ==
  { q \in Honest : life[q] \in {"new", "ready"} /\ addr.host = Host /\ addr.port = PortOf(q) }

RemoveAt(s, i) == SubSeq(s, 1, i - 1) \o SubSeq(s, i + 1, Len(s))

\* The constructor's last line: if(self.startDiscovery) self.discover().
Start(p) ==
  /\ life[p] = "new"
  /\ LET r == discover(p, discoveryAddresses[p], discovering[p])
     IN /\ discoveryAddresses' = [discoveryAddresses EXCEPT ![p] = r.queue]
        /\ discovering' = [discovering EXCEPT ![p] = r.discovering]
        /\ dials' = dials \o r.dials
        /\ emitted' = [emitted EXCEPT ![p] = EmitAll(@, Named(p, r.events))]
  /\ life' = [life EXCEPT ![p] = "ready"]
  /\ UNCHANGED <<cfg, ep, peers, timers, net, known, clock, used>>

\* wsServer.on('request'): the listener accepts dial i and sets the
\* connection up on its side.
Request(i) ==
  /\ dials[i].conn = Null
  /\ life[dials[i].from] # "crashed"
  /\ Len(ep) < 2 * MaxConns
  /\ \E q \in ListenerAt(dials[i].parsedAddress) :
       LET c == Len(ep) \div 2 + 1
           e == 2 * c
           fresh == ep \o <<NewEndpoint(dials[i].from), NewEndpoint(q)>>
       IN /\ ep' = setupConnection(fresh, e, Address(FALSE, NoPort), EphemeralPort(c))
          /\ peers' = [peers EXCEPT ![q] = Append(@, e)]
          /\ emitted' = [emitted EXCEPT ![q] = Emit(@, Event("request", e, NoBody))]
          /\ dials' = [dials EXCEPT ![i].conn = c]
          /\ net' = Append(net, "up")
  /\ UNCHANGED <<cfg, discoveryAddresses, discovering, timers, known, life, clock, used>>

\* client.on('connect'): the dialing side sets the connection up, then next().
Connect(i) ==
  /\ dials[i].conn # Null
  /\ life[dials[i].from] # "crashed"
  /\ LET p == dials[i].from
         e == 2 * dials[i].conn - 1
         ds == next(p, [queue |-> discoveryAddresses[p], dials |-> <<>>,
                        events |-> <<>>])
     IN /\ ep' = setupConnection(ep, e, dials[i].peerToDiscover.address,
                                 dials[i].parsedAddress.port)
        /\ peers' = [peers EXCEPT ![p] = Append(@, e)]
        /\ discoveryAddresses' = [discoveryAddresses EXCEPT ![p] = ds.queue]
        /\ dials' = RemoveAt(dials, i) \o ds.dials
        /\ emitted' = [emitted EXCEPT ![p] = EmitAll(@, Named(p, ds.events))]
  /\ UNCHANGED <<cfg, discovering, timers, net, known, life, clock, used>>

\* client.on('connectFailed'): nobody listens at the address; next().
ConnectFailed(i) ==
  /\ dials[i].conn = Null
  /\ life[dials[i].from] # "crashed"
  /\ ListenerAt(dials[i].parsedAddress) = {}
  /\ LET p == dials[i].from
         ds == next(p, [queue |-> discoveryAddresses[p], dials |-> <<>>,
                        events |-> <<>>])
     IN /\ discoveryAddresses' = [discoveryAddresses EXCEPT ![p] = ds.queue]
        /\ dials' = RemoveAt(dials, i) \o ds.dials
        /\ emitted' = [emitted EXCEPT ![p] = EmitAll(@, Named(p, ds.events))]
  /\ UNCHANGED <<cfg, ep, peers, discovering, timers, net, known, life, clock, used>>

\* -------------------------------------------------------------- messages
\* PeerMessage (lib/message.js): header {type, hash, timestamp, signature,
\* confirm} and body.  The hash is determined by (type, body, timestamp); a
\* message built from another one (new PeerMessage({ message })) keeps its
\* header and body.
Reserved == {"HELO", "TRUSTED", "CONFIRM", "PEERS", "MESSAGE"}
Hash(type, body, ts) == <<type, body, ts>>
NoConfirm == [hash |-> <<"", NoBody, Null>>, timestamp |-> Null]
NoSignature == [by |-> Null, over |-> NoBody]
PeerMessage(type, body, ts) ==
  [type |-> type, hash |-> Hash(type, body, ts), timestamp |-> ts,
   signature |-> NoSignature, confirm |-> NoConfirm, body |-> body]
CopyMessage(m) == m
PEER_MESSAGE_STRING(type) == type
NoMessage == PeerMessage("", NoBody, Null)

Timer(kind, e, msg) == [kind |-> kind, e |-> e, msg |-> msg]

\* ------------------------------------------------------------- broadcast
\* The frame written for `message` on trusted endpoint e: signed by the
\* sender over the serialized body, then the body encrypted with the
\* endpoint's own key and iv.
\* A frame whose body is encrypted with the key received from the peer
\* instead of the endpoint's own.
SealedWithPeerKey(eps, e, message) ==
  [CopyMessage(message) EXCEPT
     !.signature = RsaSign(eps[e].owner, message.body),
     !.body = IF message.type = "HELO" THEN Unreadable
              ELSE AesEncrypt(eps[e].peerKey, eps[e].peerIv, message.body)]

Sealed(eps, e, message) ==
  [CopyMessage(message) EXCEPT
     !.signature = RsaSign(eps[e].owner, message.body),
     !.body = IF message.type = "HELO" THEN Unreadable
              ELSE AesEncrypt(eps[e].key, eps[e].iv, message.body)]

\* A retry guard that lets CONFIRMs through.
NeedsRetryAny(p, message) == cfg[p].requireConfirmation

\* The guard of lines 981-982.
NeedsRetry(p, message) == cfg[p].requireConfirmation /\ message.type # "CONFIRM"

\* broadcast's loop over toSendTo, on the state [eps, timers].
RECURSIVE SendEach(_, _, _, _)
SendEach(p, st, message, toSendTo) ==
  IF toSendTo = <<>> THEN st
  ELSE LET e == Head(toSendTo)
           frame == Sealed(st.eps, e, message)
           retry == NeedsRetry(p, message)
           queued == [st.eps EXCEPT ![e].unconfirmedMessages = Append(@, message),
                                    ![e].wrote = Append(@, frame.hash)]
           one ==
             IF ~st.eps[e].connected THEN st
             ELSE IF st.eps[e].trusted
             THEN [eps |-> Send(queued, e, frame),
                   timers |-> IF retry
                              THEN Emit(st.timers, Timer("retry", e, frame))
                              ELSE st.timers]
             ELSE IF message.type = "HELO"
             THEN [st EXCEPT !.eps = [Send(@, e, message) EXCEPT
                                        ![e].wrote = Append(@, message.hash)]]
             ELSE st
       IN SendEach(p, one, message, Tail(toSendTo))

\* broadcast(message) to every row of the peer table, or
\* broadcast({ message, connection }) to one connection.
broadcast(p, st, message, toSendTo) ==
  IF Len(peers[p]) < 1 THEN st ELSE SendEach(p, st, message, toSendTo)

\* ---------------------------------------------------------------- receive
\* A peer whose process runs: its handlers and timers fire.  After close()
\* the process goes on running with its listener shut.
Live(p) == life[p] \in {"new", "ready", "closed"}

\* An endpoint whose owner can run a 'message' handler for its first frame.
CanReceive(e) ==
  /\ Up(e)
  /\ Live(ep[e].owner)
  /\ ep[e].sock # "closed"
  /\ Len(ep[e].inbox) > 0

Pop(eps, e) == [eps EXCEPT ![e].inbox = Tail(@)]

\* connection.close(): the close frame is sent and `connected` drops; the
\* 'close' event follows when the remote end answers.
CloseFrame == [type |-> "CLOSE", code |-> NormalClosure]
close(eps, e) ==
  IF eps[e].connected
  THEN [Send(eps, e, CloseFrame) EXCEPT ![e].connected = FALSE, ![e].sock = "closing"]
  ELSE eps

TrustedFrame(eps, p, e, knownPeers) ==
  [type |-> "TRUSTED",
   signature |-> PublicKey(p),
   body |-> [key |-> RsaEncrypt(eps[e].peerPublicKey, eps[e].key),
             iv |-> RsaEncrypt(eps[e].peerPublicKey, eps[e].iv),
             peers |-> knownPeers,
             listening |-> [port |-> PortOf(p), address |-> cfg[p].publicAddress],
             requireConfirmation |-> cfg[p].requireConfirmation]]

\* An admission that marks the connection trusted and sends no TRUSTED.
AdmitSilent(eps, e, body) ==
  [eps EXCEPT ![e].trusted = TRUE,
              ![e].peerPublicKey = body.publicKey,
              ![e].peerPublicKeySignature = FromBase64(body.signature),
              ![e].iv = FreshIv(e, eps[e].gen + 1),
              ![e].key = FreshKey(e, eps[e].gen + 1),
              ![e].gen = eps[e].gen + 1]

\* The HELO branch once the key is verified: lines 647-686.
Admit(eps, e, body) ==
  LET p == eps[e].owner
      n == eps[e].gen + 1
      marked == [eps EXCEPT ![e].trusted = TRUE,
                            ![e].peerPublicKey = body.publicKey,
                            ![e].peerPublicKeySignature = FromBase64(body.signature),
                            ![e].iv = FreshIv(e, n),
                            ![e].key = FreshKey(e, n),
                            ![e].gen = n]
      knownPeers == getPeerList(marked, p, {ToBase64(FromBase64(body.signature))})
  IN Send(marked, e, TrustedFrame(marked, p, e, knownPeers))

\* A HELO branch that admits without asking the ring public key.
HeloBranchUnverified(eps, e, body) ==
  IF body.publicKey = BadKey THEN eps
  ELSE IF isOwnSignature(eps[e].owner, ToBase64(FromBase64(body.signature)))
  THEN close(eps, e)
  ELSE Admit(eps, e, body)

\* receive(), header.type == helo.
HeloBranch(eps, e, body) ==
  IF body.publicKey = BadKey THEN eps                       \* new NodeRSA throws
  ELSE IF isOwnSignature(eps[e].owner, ToBase64(FromBase64(body.signature)))
  THEN close(eps, e)
  ELSE IF RingVerify(body.publicKey, FromBase64(body.signature))
  THEN Admit(eps, e, body)
  ELSE eps

ReceiveHelo(e) ==
  /\ CanReceive(e)
  /\ Head(ep[e].inbox).type = "HELO"
  /\ ep' = HeloBranch(Pop(ep, e), e, Head(ep[e].inbox).body)
  /\ UNCHANGED <<cfg, peers, discoveryAddresses, discovering, dials, timers,
                 emitted, net, known, life, clock, used>>

\* A gossip intake that queues every entry it is given.
IntakeAll(p, queue, entries) == queue \o entries

\* Gossip intake, lines 762-780.
RECURSIVE Intake(_, _, _)
Intake(p, queue, entries) ==
  IF entries = <<>> THEN queue
  ELSE LET entry == Head(entries)
           fresh == /\ ~inDiscoveryAddresses(queue, entry)
                    /\ ~isConnectedTo(p, entry)
                    /\ ~isOwnSignature(p, entry.signature)
       IN Intake(p, IF fresh THEN Append(queue, entry) ELSE queue, Tail(entries))

Timestamp(p, k) == 10 * p + k

\* What the embedder's 'connection' handler broadcasts (the handler of the
\* PeerCustomEventListener test), when the peer is configured with one.
Greeting(p) == PeerMessage("CustomX", PlainBody("hello"), Timestamp(p, clock[p] + 1))

\* receive(), header.type == trusted, lines 692-794.
ReceiveTrusted(e) ==
  /\ CanReceive(e)
  /\ Head(ep[e].inbox).type = "TRUSTED"
  /\ LET p == ep[e].owner
         body == Head(ep[e].inbox).body
         popped == Pop(ep, e)
         ivOk == /\ body.iv # NoCipher
                 /\ body.key # NoCipher
                 /\ RsaCanDecrypt(p, body.iv)
         keyOk == ivOk /\ RsaCanDecrypt(p, body.key)
         keyed == [popped EXCEPT ![e].peerIv = body.iv.val,
                                 ![e].peerKey = body.key.val]
         greeted == IF cfg[p].greet
                    THEN broadcast(p, [eps |-> keyed, timers |-> timers],
                                   Greeting(p), peers[p])
                    ELSE [eps |-> keyed, timers |-> timers]
         queue == Intake(p, discoveryAddresses[p], body.peers)
         r == IF Len(queue) > Len(discoveryAddresses[p])
              THEN discover(p, queue, discovering[p])
              ELSE [queue |-> queue, dials |-> <<>>, events |-> <<>>,
                    discovering |-> discovering[p]]
     IN IF ~ep[e].trusted \/ ~ivOk
        THEN /\ ep' = popped
             /\ UNCHANGED <<discoveryAddresses, discovering, dials, timers,
                            emitted, clock>>
        ELSE IF ~keyOk
        THEN /\ ep' = [popped EXCEPT ![e].peerIv = body.iv.val]
             /\ UNCHANGED <<discoveryAddresses, discovering, dials, timers,
                            emitted, clock>>
        ELSE /\ ep' = [greeted.eps EXCEPT
                         ![e].requireConfirmation = body.requireConfirmation,
                         ![e].originalAddress = body.listening.address,
                         ![e].originalPort = body.listening.port]
             /\ timers' = greeted.timers
             /\ clock' = IF cfg[p].greet THEN [clock EXCEPT ![p] = @ + 1] ELSE clock
             /\ discoveryAddresses' = [discoveryAddresses EXCEPT ![p] = r.queue]
             /\ discovering' = [discovering EXCEPT ![p] = r.discovering]
             /\ dials' = dials \o r.dials
             /\ emitted' = [emitted EXCEPT ![p] =
                  EmitAll(Emit(@, Event("connection", e, NoBody)), Named(p, r.events))]
  /\ UNCHANGED <<cfg, peers, net, known, life, used>>

\* receive(), header.type == confirm, lines 796-833: the last entry of
\* unconfirmedMessages with the confirmed hash and timestamp is removed.
RECURSIVE LastMatch(_, _, _)
LastMatch(list, confirm, i) ==
  IF i = 0 THEN 0
  ELSE IF list[i].hash = confirm.hash /\ list[i].timestamp = confirm.timestamp
  THEN i
  ELSE LastMatch(list, confirm, i - 1)

\* A confirmation intake that removes nothing.
ConfirmedNever(list, confirm) == list

\* A confirmation intake that scans from the head of the list.
ConfirmedFirst(list, confirm) ==
  LET M == { i \in 1 .. Len(list) :
               list[i].hash = confirm.hash /\ list[i].timestamp = confirm.timestamp }
  IN IF M = {} THEN list
     ELSE LET k == CHOOSE i \in M : \A j \in M : i <= j
          IN SubSeq(list, 1, k - 1) \o SubSeq(list, k + 1, Len(list))

Confirmed(list, confirm) ==
  LET i == LastMatch(list, confirm, Len(list))
  IN IF i = 0 THEN list ELSE SubSeq(list, 1, i - 1) \o SubSeq(list, i + 1, Len(list))

ReceiveConfirm(e) ==
  /\ CanReceive(e)
  /\ Head(ep[e].inbox).type = "CONFIRM"
  /\ LET p == ep[e].owner
         f == Head(ep[e].inbox)
     IN ep' = IF ep[e].trusted /\ cfg[p].requireConfirmation
              THEN [Pop(ep, e) EXCEPT ![e].unconfirmedMessages = Confirmed(@, f.confirm),
                                      ![e].acked = @ \cup {f.confirm.hash}]
              ELSE Pop(ep, e)
  /\ UNCHANGED <<cfg, peers, discoveryAddresses, discovering, dials, timers,
                 emitted, net, known, life, clock, used>>

\* A confirmation addressed to every row of the peer table.
ConfirmTargetsAll(p, e) == peers[p]

\* broadcast({ message: confirmationMsg, connection }), lines 882-885: the
\* one connection the frame came in on.
ConfirmTargets(p, e) == <<e>>

\* receive(), any other header.type, lines 843-915: decrypt, verify, confirm,
\* emit.
ConfirmationFor(p, f) ==
  [PeerMessage("CONFIRM", NoBody, Timestamp(p, clock[p] + 1)) EXCEPT
     !.confirm = [hash |-> f.hash, timestamp |-> f.timestamp]]

\* An acceptance test that does not check the body signature.
AcceptsUnsigned(eps, e, f) ==
  /\ eps[e].trusted
  /\ eps[e].peerKey # Null
  /\ AesCanDecrypt(eps[e].peerKey, eps[e].peerIv, f.body)

Accepts(eps, e, f) ==
  /\ eps[e].trusted
  /\ eps[e].peerKey # Null
  /\ AesCanDecrypt(eps[e].peerKey, eps[e].peerIv, f.body)
  /\ RsaVerify(eps[e].peerPublicKey,
               AesDecrypt(eps[e].peerKey, eps[e].peerIv, f.body), f.signature)

ReceiveData(e) ==
  /\ CanReceive(e)
  /\ Head(ep[e].inbox).type \notin {"HELO", "TRUSTED", "CONFIRM", "PEERS", "CLOSE"}
  /\ LET p == ep[e].owner
         f == Head(ep[e].inbox)
         popped == Pop(ep, e)
         body == AesDecrypt(ep[e].peerKey, ep[e].peerIv, f.body)
         st == IF ep[e].requireConfirmation
               THEN broadcast(p, [eps |-> popped, timers |-> timers],
                              ConfirmationFor(p, f), ConfirmTargets(p, e))
               ELSE [eps |-> popped, timers |-> timers]
         custom == IF f.type \notin Reserved
                   THEN <<Event(PEER_MESSAGE_STRING(f.type), e, body)>> ELSE <<>>
     IN IF Accepts(ep, e, f)
        THEN /\ ep' = st.eps
             /\ timers' = st.timers
             /\ clock' = IF ep[e].requireConfirmation
                         THEN [clock EXCEPT ![p] = @ + 1] ELSE clock
             /\ emitted' = [emitted EXCEPT ![p] =
                  EmitAll(@, <<Event("message", e, body)>> \o custom)]
        ELSE /\ ep' = IF ep[e].trusted
                       THEN [popped EXCEPT ![e].dropped = 1]   \* the catch block
                       ELSE popped
             /\ UNCHANGED <<timers, clock, emitted>>
  /\ UNCHANGED <<cfg, peers, discoveryAddresses, discovering, dials, net,
                 known, life, used>>

\* receive(), header.type == peers, lines 834-842: the peer list is sent
\* back in a PEERS frame of its own.
PeersFrame(eps, p) ==
  LET body == [peers |-> getPeerList(eps, p, {})]
  IN [PeerMessage("PEERS", body, Timestamp(p, clock[p])) EXCEPT
        !.signature = RsaSign(p, body)]

\* A PEERS branch that answers on any connection.
PeersBranchOpen(eps, e) ==
  [Send(eps, e, PeersFrame(eps, eps[e].owner)) EXCEPT
     ![e].wrote = Append(@, PeersFrame(eps, eps[e].owner).hash)]

PeersBranch(eps, e) ==
  IF eps[e].trusted
  THEN [Send(eps, e, PeersFrame(eps, eps[e].owner)) EXCEPT
          ![e].wrote = Append(@, PeersFrame(eps, eps[e].owner).hash)]
  ELSE eps

ReceivePeers(e) ==
  /\ CanReceive(e)
  /\ Head(ep[e].inbox).type = "PEERS"
  /\ ep' = PeersBranch(Pop(ep, e), e)
  /\ UNCHANGED <<cfg, peers, discoveryAddresses, discovering, dials, timers,
                 emitted, net, known, life, clock, used>>

\* ------------------------------------------------------ application calls
Bump(field) == [used EXCEPT ![field] = @ + 1]

\* The types an embedder broadcasts: the default type, a type of its own,
\* and the handshake type (which broadcast lets through to connections that
\* are not trusted yet).
Types == {"MESSAGE", "CustomX", "HELO"}

\* peer.broadcast(new PeerMessage({ type, body })) by the embedder.
Broadcast(p, type) ==
  /\ life[p] = "ready"
  /\ used.broadcasts < MaxBroadcasts
  /\ Len(peers[p]) >= 1
  /\ LET body == IF type = "HELO" THEN HeloFrame(p).body ELSE PlainBody("hello")
         message == PeerMessage(type, body, Timestamp(p, clock[p] + 1))
         st == broadcast(p, [eps |-> ep, timers |-> timers], message, peers[p])
     IN /\ ep' = st.eps
        /\ timers' = st.timers
  /\ clock' = [clock EXCEPT ![p] = @ + 1]
  /\ used' = Bump("broadcasts")
  /\ UNCHANGED <<cfg, peers, discoveryAddresses, discovering, dials, emitted,
                 net, known, life>>

\* ----------------------------------------------------------- send callback
\* What the transport hands to a send callback when the write failed: an
\* Error object, which has a message and no `length` property.
Undefined == [undefined |-> TRUE]
WriteError == [message |-> "write failed"]

\* Function.prototype.apply(thisArg, argArray) builds the argument list
\* from the array-like argArray: its first `length` indexed properties, no
\* argument if it has no length or is undefined.
CreateListFromArrayLike(argArray) ==
  IF argArray = Undefined THEN <<>>
  ELSE IF "length" \in DOMAIN argArray
  THEN [i \in 1 .. argArray.length |-> argArray[i]]
  ELSE <<>>

\* The callback given to sendUTF, (err) => sendCallback.apply(self, err),
\* of lines 1024-1034, run with a write error for the frame last written
\* on e and not yet handed to broadcast again.
SendFailed(e) ==
  /\ e \in Endpoints
  /\ Up(e)
  /\ Live(ep[e].owner)
  /\ ep[e].trusted
  /\ net[ConnOf(e)] = "down"
  /\ used.writeErrors < MaxWriteErrors
  /\ ep[e].wrote # <<>>
  /\ LET p == ep[e].owner
         h == ep[e].wrote[Len(ep[e].wrote)]
         messageCopyToSend == Sealed(ep, e, PeerMessage(h[1], h[2], h[3]))
         args == CreateListFromArrayLike(WriteError)
         err == IF Len(args) > 0 THEN args[1] ELSE Undefined
         st == broadcast(p, [eps |-> ep, timers |-> timers], messageCopyToSend, peers[p])
     IN /\ h[1] \notin {"CONFIRM", "PEERS"}
        /\ Cardinality({ i \in 1 .. Len(ep[e].wrote) : ep[e].wrote[i] = h }) = 1
        /\ IF err # Undefined
           THEN ep' = st.eps /\ timers' = st.timers
           ELSE UNCHANGED <<ep, timers>>
  /\ used' = Bump("writeErrors")
  /\ UNCHANGED <<cfg, peers, discoveryAddresses, discovering, dials, emitted,
                 net, known, life, clock>>

\* ------------------------------------------------------------------ timers
Cancel(bag, t) ==
  IF bag[t] = 1 THEN [x \in DOMAIN bag \ {t} |-> bag[x]]
  ELSE [bag EXCEPT ![t] = @ - 1]

\* A test that finds nothing.
FoundNever(list, msg) == FALSE

\* The retry timer's test, lines 990-999, read when the timer fires.
Found(list, msg) ==
  \E i \in 1 .. Len(list) :
     list[i].hash = msg.hash /\ list[i].timestamp = msg.timestamp

\* The setTimeout callback of lines 989-1008.
RetryTimer(t) ==
  /\ t.kind = "retry"
  /\ Live(ep[t.e].owner)
  /\ LET p == ep[t.e].owner
         found == Found(ep[t.e].unconfirmedMessages, t.msg)
         st == broadcast(p, [eps |-> ep, timers |-> Cancel(timers, t)],
                         t.msg, peers[p])
     IN IF found
        THEN /\ used.retries < MaxRetries
             /\ ep' = st.eps
             /\ timers' = st.timers
             /\ used' = Bump("retries")
        ELSE /\ timers' = Cancel(timers, t)
             /\ UNCHANGED <<ep, used>>
  /\ UNCHANGED <<cfg, peers, discoveryAddresses, discovering, dials, emitted,
                 net, known, life, clock>>

\* The setTimeout callback of lines 515-517: discover().
DiscoverTimer(t) ==
  /\ t.kind = "discover"
  /\ Live(t.e)
  /\ LET p == t.e
         r == discover(p, discoveryAddresses[p], discovering[p])
     IN /\ discoveryAddresses' = [discoveryAddresses EXCEPT ![p] = r.queue]
        /\ discovering' = [discovering EXCEPT ![p] = r.discovering]
        /\ dials' = dials \o r.dials
        /\ emitted' = [emitted EXCEPT ![p] = EmitAll(@, Named(p, r.events))]
  /\ timers' = Cancel(timers, t)
  /\ UNCHANGED <<cfg, ep, peers, net, known, life, clock, used>>

\* ------------------------------------------------------------------ closes
\* A shutdown loop that ends at the first connection whose close() throws.
RECURSIVE closeUntilThrow(_, _, _)
closeUntilThrow(eps, rows, throwing) ==
  IF rows = <<>> THEN eps
  ELSE IF Head(rows) \in throwing THEN [eps EXCEPT ![Head(rows)].threw = TRUE]
  ELSE closeUntilThrow(close(eps, Head(rows)), Tail(rows), throwing)

\* The loop of lines 1077-1084: a connection whose close() throws is left as
\* it is and the loop goes on.
RECURSIVE closeAll(_, _, _)
closeAll(eps, rows, throwing) ==
  IF rows = <<>> THEN eps
  ELSE closeAll(IF Head(rows) \in throwing
                THEN [eps EXCEPT ![Head(rows)].threw = TRUE]
                ELSE close(eps, Head(rows)),
                Tail(rows), throwing)

\* Peer.close(): every connection of the peer table is closed and the
\* listener shut.  Which of the open connections throw is the transport's.
PeerClose(p) ==
  /\ life[p] = "ready"
  /\ used.closes < MaxCloses
  /\ \E throwing \in SUBSET { peers[p][i] : i \in 1 .. Len(peers[p]) } :
       /\ \A e \in throwing : ep[e].connected
       /\ ep' = closeAll(ep, peers[p], throwing)
  /\ life' = [life EXCEPT ![p] = "closed"]
  /\ used' = Bump("closes")
  /\ UNCHANGED <<cfg, peers, discoveryAddresses, discovering, dials, timers,
                 emitted, net, known, clock>>

\* The transport delivers the remote end's close frame: the library answers
\* it if this end had not closed itself, and the 'close' handler of lines
\* 499-520 runs with code 1000.
ReceiveClose(e) ==
  /\ CanReceive(e)
  /\ Head(ep[e].inbox).type = "CLOSE"
  /\ LET answered == IF ep[e].sock = "open" THEN Send(ep, e, CloseFrame) ELSE ep
     IN ep' = [answered EXCEPT ![e].connected = FALSE, ![e].trusted = FALSE,
                               ![e].sock = "closed", ![e].inbox = <<>>]
  /\ UNCHANGED <<cfg, peers, discoveryAddresses, discovering, dials, timers,
                 emitted, net, known, life, clock, used>>

\* The socket of connection c is lost (reset, or a process killed).
NetDrop(c) ==
  /\ c \in 1 .. Len(net)
  /\ net[c] = "up"
  /\ used.drops < MaxDrops
  /\ \E e \in {2 * c - 1, 2 * c} : ep[e].sock \in {"open", "closing"}
  /\ net' = [net EXCEPT ![c] = "down"]
  /\ used' = Bump("drops")
  /\ UNCHANGED <<cfg, ep, peers, discoveryAddresses, discovering, dials, timers,
                 emitted, known, life, clock>>

\* connection.on('error'), lines 487-496.
ErrorEvent(e) ==
  /\ Up(e)
  /\ Live(ep[e].owner)
  /\ net[ConnOf(e)] = "down"
  /\ ep[e].sock \in {"open", "closing"}
  /\ ep' = [ep EXCEPT ![e].trusted = FALSE, ![e].connected = FALSE,
                      ![e].sock = "errored", ![e].inbox = <<>>]
  /\ UNCHANGED <<cfg, peers, discoveryAddresses, discovering, dials, timers,
                 emitted, net, known, life, clock, used>>

\* connection.on('close') with a code other than 1000, lines 499-520.  With
\* no peerPublicKeySignature stored, line 509 throws and the process ends.
CloseEvent(e) ==
  /\ Up(e)
  /\ Live(ep[e].owner)
  /\ net[ConnOf(e)] = "down"
  /\ ep[e].sock # "closed"
  /\ LET p == ep[e].owner
         lost == Candidate(ep[e].originalAddress,
                           ToBase64(ep[e].peerPublicKeySignature))
     IN /\ ep' = [ep EXCEPT ![e].trusted = FALSE, ![e].connected = FALSE,
                            ![e].sock = "closed", ![e].inbox = <<>>]
        /\ IF ep[e].peerPublicKeySignature = Null
           THEN /\ life' = [life EXCEPT ![p] = "crashed"]
                /\ net' = [c \in 1 .. Len(net) |->
                             IF p \in {ep[2 * c - 1].owner, ep[2 * c].owner}
                             THEN "down" ELSE net[c]]
                /\ UNCHANGED <<discoveryAddresses, timers>>
           ELSE /\ discoveryAddresses' =
                     [discoveryAddresses EXCEPT ![p] = Append(@, lost)]
                /\ timers' = IF discovering[p] THEN timers
                             ELSE Emit(timers, Timer("discover", p, NoMessage))
                /\ UNCHANGED <<life, net>>
  /\ UNCHANGED <<cfg, peers, discovering, dials, emitted, known, clock, used>>

\* The process of peer p is killed: its sockets are lost with it, and so are
\* its peer table, queue, timers and dials in progress.
Kill(p) ==
  /\ life[p] = "ready"
  /\ used.kills < MaxKills
  /\ ep' = [e \in Endpoints |->
             IF ep[e].owner = p
             THEN [ep[e] EXCEPT !.up = FALSE, !.sock = "closed",
                                !.connected = FALSE, !.trusted = FALSE,
                                !.inbox = <<>>]
             ELSE ep[e]]
  /\ net' = [c \in 1 .. Len(net) |->
              IF p \in {ep[2 * c - 1].owner, ep[2 * c].owner} THEN "down" ELSE net[c]]
  /\ peers' = [peers EXCEPT ![p] = <<>>]
  /\ discoveryAddresses' = [discoveryAddresses EXCEPT ![p] = <<>>]
  /\ discovering' = [discovering EXCEPT ![p] = FALSE]
  /\ dials' = SelectSeq(dials, LAMBDA d : d.from # p)
  /\ timers' = [t \in { u \in DOMAIN timers :
                          IF u.kind = "discover" THEN u.e # p
                          ELSE ep[u.e].owner # p } |-> timers[t]]
  /\ life' = [life EXCEPT ![p] = "down"]
  /\ used' = Bump("kills")
  /\ UNCHANGED <<cfg, emitted, known, clock>>

\* The killed peer is started again with the options it had: the
\* constructor runs up to its call of discover(), listening on the same
\* port.
Restart(p) ==
  /\ life[p] = "down"
  /\ life' = [life EXCEPT ![p] = "new"]
  /\ discoveryAddresses' = [discoveryAddresses EXCEPT ![p] = cfg[p].discoveryAddresses]
  /\ UNCHANGED <<cfg, ep, peers, discovering, dials, timers, emitted, net,
                 known, clock, used>>

\* ------------------------------------------------------------ the outsider
\* The outsider dials listener q: q's 'request' handler runs, and the
\* outsider receives q's HELO.
MalloryConnect(q) ==
  /\ life[q] \in {"new", "ready"}
  /\ Len(ep) < 2 * MaxConns
  /\ used.intrusions < MaxIntrusions
  /\ LET c == Len(ep) \div 2 + 1
         e == 2 * c
         fresh == ep \o <<NewEndpoint(Mallory), NewEndpoint(q)>>
     IN /\ ep' = setupConnection(fresh, e, Address(FALSE, NoPort), EphemeralPort(c))
        /\ peers' = [peers EXCEPT ![q] = Append(@, e)]
        /\ emitted' = [emitted EXCEPT ![q] = Emit(@, Event("request", e, NoBody))]
        /\ net' = Append(net, "up")
        /\ known' = known \cup {q}
  /\ used' = Bump("intrusions")
  /\ UNCHANGED <<cfg, discoveryAddresses, discovering, dials, timers, life, clock>>

\* Frames the outsider can build for endpoint e: HELOs replaying a key and
\* ring signature it has received (in either base64 text), HELOs with its
\* own key or an unreadable key, and TRUSTED frames whose session key it
\* encrypts to the receiver's public key (which the receiver's HELO gave it).
ForgedHelo(e) ==
  { [type |-> "HELO", body |-> [publicKey |-> pk, signature |-> w]] :
      pk \in { PublicKey(k) : k \in known } \cup {PublicKey(Mallory), BadKey},
      w \in { ToBase64(Signature(k)) : k \in known }
            \cup { NonCanonical(Signature(ep[e].owner)) } }

ForgedTrusted(e) ==
  { [type |-> "TRUSTED", signature |-> PublicKey(Mallory),
     body |-> [key |-> RsaEncrypt(PublicKey(ep[e].owner), FreshKey(Mallory, 1)),
               iv |-> RsaEncrypt(PublicKey(ep[e].owner), FreshIv(Mallory, 1)),
               peers |-> <<>>,
               listening |-> [port |-> PortOf(Mallory), address |-> Address(FALSE, NoPort)],
               requireConfirmation |-> FALSE]] }

MalloryHelo(e) ==
  /\ e \in Endpoints
  /\ Up(e)
  /\ ep[Remote(e)].owner = Mallory
  /\ net[ConnOf(e)] = "up"
  /\ ep[e].sock = "open"
  /\ used.forged < MaxForged
  /\ \E f \in ForgedHelo(e) : ep' = [ep EXCEPT ![e].inbox = Append(@, f)]
  /\ used' = Bump("forged")
  /\ UNCHANGED <<cfg, peers, discoveryAddresses, discovering, dials, timers,
                 emitted, net, known, life, clock>>

MalloryTrusted(e) ==
  /\ e \in Endpoints
  /\ Up(e)
  /\ ep[Remote(e)].owner = Mallory
  /\ net[ConnOf(e)] = "up"
  /\ ep[e].sock = "open"
  /\ used.forged < MaxForged
  /\ \E f \in ForgedTrusted(e) : ep' = [ep EXCEPT ![e].inbox = Append(@, f)]
  /\ used' = Bump("forged")
  /\ UNCHANGED <<cfg, peers, discoveryAddresses, discovering, dials, timers,
                 emitted, net, known, life, clock>>

\* Session frames the outsider can build for endpoint e: a data frame whose
\* body is encrypted with the session key it sent in its TRUSTED or not
\* encrypted at all, signed with its own key (it holds no member's private
\* key); a CONFIRM naming a message e has sent or none; a PEERS request.
ForgedData(e) ==
  { [PeerMessage(type, body, Timestamp(Mallory, 1)) EXCEPT
       !.signature = RsaSign(Mallory, PlainBody("forged"))] :
      type \in {"MESSAGE", "CustomX"},
      body \in { AesEncrypt(FreshKey(Mallory, 1), FreshIv(Mallory, 1), PlainBody("forged")),
                 PlainBody("forged") } }
  \cup
  { [PeerMessage("CONFIRM", NoBody, Timestamp(Mallory, 1)) EXCEPT !.confirm = c] :
      c \in { [hash |-> ep[e].unconfirmedMessages[i].hash,
               timestamp |-> ep[e].unconfirmedMessages[i].timestamp] :
                 i \in 1 .. Len(ep[e].unconfirmedMessages) } \cup {NoConfirm} }
  \cup
  { PeerMessage("PEERS", NoBody, Timestamp(Mallory, 1)) }

MalloryData(e) ==
  /\ e \in Endpoints
  /\ Up(e)
  /\ ep[Remote(e)].owner = Mallory
  /\ net[ConnOf(e)] = "up"
  /\ ep[e].sock = "open"
  /\ used.injected < MaxInjected
  /\ \E f \in ForgedData(e) : ep' = [ep EXCEPT ![e].inbox = Append(@, f)]
  /\ used' = Bump("injected")
  /\ UNCHANGED <<cfg, peers, discoveryAddresses, discovering, dials, timers,
                 emitted, net, known, life, clock>>

\* ------------------------------------------------------------------- specs
DefaultConfig ==
  [requireConfirmation |-> TRUE,
   publicAddress |-> Address(FALSE, NoPort),
   range |-> <<PortOf(1), PortOf(NPeers)>>,
   greet |-> FALSE]

\* Peers 2..n are each started with the listening address of the one
\* before: B with A's, C with B's.
ChainAddresses(n) ==
  [p \in Honest |-> IF p \in 2 .. n
                    THEN <<Candidate(Address(FALSE, PortOf(p - 1)), Null)>>
                    ELSE <<>>]

\* Peers 1 and 2 are each started with the other's listening address.
MutualAddresses ==
  [p \in Honest |-> IF p = 1 THEN <<Candidate(Address(FALSE, PortOf(2)), Null)>>
                    ELSE IF p = 2 THEN <<Candidate(Address(FALSE, PortOf(1)), Null)>>
                    ELSE <<>>]

\* The state after the constructors of the peers in `present` have run up
\* to (not including) their call of discover(); every listener is up.  The
\* outsider has seen the HELOs of the members in `seen` before.
Boot(queues, config, present, seen) ==
  /\ cfg = [p \in Honest |->
              [requireConfirmation |-> config[p].requireConfirmation,
               publicAddress |-> config[p].publicAddress,
               range |-> config[p].range,
               greet |-> config[p].greet,
               discoveryAddresses |-> queues[p]]]
  /\ ep = <<>>
  /\ peers = [p \in Honest |-> <<>>]
  /\ discoveryAddresses = queues
  /\ discovering = [p \in Honest |-> FALSE]
  /\ dials = <<>>
  /\ timers = <<>>
  /\ emitted = [p \in Honest |-> <<>>]
  /\ net = <<>>
  /\ known = seen
  /\ life = [p \in Honest |-> IF p \in present THEN "new" ELSE "absent"]
  /\ clock = [p \in Honest |-> 0]
  /\ used = [intrusions |-> 0, forged |-> 0, injected |-> 0, drops |-> 0, closes |-> 0, kills |-> 0, writeErrors |-> 0,
             broadcasts |-> 0,
             retries |-> 0]

Fresh(queues, config, present) == Boot(queues, config, present, {})

\* A is started with its own listening address, B with A's.
SelfAddresses ==
  [p \in Honest |-> IF p \in {1, 2}
                    THEN <<Candidate(Address(FALSE, PortOf(1)), Null)>>
                    ELSE <<>>]

\* Two ring members, A dialing itself and B dialing A, and an outsider who
\* may open a connection to either and inject frames.
Init == Fresh(SelfAddresses, [p \in Honest |-> DefaultConfig], {1, 2})

Next ==
  \/ \E p \in Honest : Start(p)
  \/ \E i \in 1 .. Len(dials) : Request(i)
  \/ \E i \in 1 .. Len(dials) : Connect(i)
  \/ \E e \in Endpoints : ReceiveHelo(e)
  \/ \E e \in Endpoints : ReceiveTrusted(e)
  \/ \E e \in Endpoints : ReceiveClose(e)
  \/ \E q \in Honest : MalloryConnect(q)
  \/ \E e \in Endpoints : MalloryHelo(e)
  \/ \E e \in Endpoints : MalloryTrusted(e)

Spec == Init /\ [][Next]_vars

\* Two ring members started with each other's listening address, with
\* sockets that can be lost and applications that can call close().
FaultInit == Fresh(MutualAddresses, [p \in Honest |-> DefaultConfig], {1, 2})

FaultNext ==
  \/ \E p \in Honest : Start(p)
  \/ \E i \in 1 .. Len(dials) : Request(i)
  \/ \E i \in 1 .. Len(dials) : Connect(i)
  \/ \E i \in 1 .. Len(dials) : ConnectFailed(i)
  \/ \E e \in Endpoints : ReceiveHelo(e)
  \/ \E e \in Endpoints : ReceiveTrusted(e)
  \/ \E e \in Endpoints : ReceiveClose(e)
  \/ \E p \in Honest : PeerClose(p)
  \/ \E c \in 1 .. Len(net) : NetDrop(c)
  \/ \E e \in Endpoints : ErrorEvent(e)
  \/ \E e \in Endpoints : CloseEvent(e)
  \/ \E t \in DOMAIN timers : DiscoverTimer(t)

FaultSpec == FaultInit /\ [][FaultNext]_vars

\* Three ring members: A, B started with A's address, C with B's; nothing
\* fails.
GossipInit == Fresh(ChainAddresses(3), [p \in Honest |-> DefaultConfig], {1, 2, 3})

GossipNext ==
  \/ \E p \in Honest : Start(p)
  \/ \E i \in 1 .. Len(dials) : Request(i)
  \/ \E i \in 1 .. Len(dials) : Connect(i)
  \/ \E i \in 1 .. Len(dials) : ConnectFailed(i)
  \/ \E e \in Endpoints : ReceiveHelo(e)
  \/ \E e \in Endpoints : ReceiveTrusted(e)

GossipSpec == GossipInit /\ [][GossipNext]_vars

\* Two ring members, B started with A's address, whose embedders broadcast;
\* A's embedder may broadcast from its `connection` handler.  Nothing fails.
DataInit ==
  \E greet \in BOOLEAN :
    Fresh(ChainAddresses(2),
          [p \in Honest |-> IF p = 1 THEN [DefaultConfig EXCEPT !.greet = greet]
                            ELSE DefaultConfig],
          {1, 2})

DataNext ==
  \/ \E p \in Honest : Start(p)
  \/ \E i \in 1 .. Len(dials) : Request(i)
  \/ \E i \in 1 .. Len(dials) : Connect(i)
  \/ \E e \in Endpoints : ReceiveHelo(e)
  \/ \E e \in Endpoints : ReceiveTrusted(e)
  \/ \E e \in Endpoints : ReceiveData(e)
  \/ \E e \in Endpoints : ReceiveConfirm(e)
  \/ \E p \in Honest, type \in Types : Broadcast(p, type)
  \/ \E t \in DOMAIN timers : RetryTimer(t)

DataSpec == DataInit /\ [][DataNext]_vars

\* The same two peers under the scheduling of the event loop and an ordered
\* reliable transport: a handler that stays ready runs, a frame that stays
\* queued is delivered, a timer that stays armed fires.  The embedder is
\* not obliged to broadcast.
ConnIds == 1 .. 2 * MaxConns

Deliver(e) ==
  /\ e \in Endpoints
  /\ ReceiveHelo(e) \/ ReceiveTrusted(e) \/ ReceiveData(e) \/ ReceiveConfirm(e)

LiveSpec ==
  /\ DataInit /\ [][DataNext]_vars
  /\ \A p \in Honest : WF_vars(Start(p))
  /\ WF_vars(\E i \in 1 .. Len(dials) : Request(i))
  /\ WF_vars(\E i \in 1 .. Len(dials) : Connect(i))
  /\ \A e \in ConnIds : WF_vars(Deliver(e))
  /\ WF_vars(\E t \in DOMAIN timers : RetryTimer(t))

\* The two peers of DataSpec with a socket that can be lost and writes that
\* fail on it.
WriteNext ==
  \/ DataNext
  \/ \E c \in 1 .. Len(net) : NetDrop(c)
  \/ \E e \in Endpoints : SendFailed(e)

WriteSpec == DataInit /\ [][WriteNext]_vars

\* B is started with A's listening address listed twice and C with A's, so
\* that A comes to gossip a list of two rows; nothing fails.
RelayAddresses ==
  [p \in Honest |-> IF p = 2
                    THEN <<Candidate(Address(FALSE, PortOf(1)), Null),
                           Candidate(Address(TRUE, PortOf(1)), Null)>>
                    ELSE IF p = 3
                    THEN <<Candidate(Address(FALSE, PortOf(1)), Null)>>
                    ELSE <<>>]

RelayInit == Fresh(RelayAddresses, [p \in Honest |-> DefaultConfig], {1, 2, 3})

RelaySpec == RelayInit /\ [][GossipNext]_vars

\* receive() of a PEERS frame, while the end has written fewer than
\* MaxWritten frames.
PeersExchange(e) ==
  /\ e \in Endpoints
  /\ Len(ep[e].wrote) < MaxWritten
  /\ ReceivePeers(e)

\* Two ring members, B started with A's address, whose embedders ask for the
\* peer list with a broadcast of type PEERS; nothing fails and no timer
\* fires.
PeersNext ==
  \/ \E p \in Honest : Start(p)
  \/ \E i \in 1 .. Len(dials) : Request(i)
  \/ \E i \in 1 .. Len(dials) : Connect(i)
  \/ \E e \in Endpoints : ReceiveHelo(e)
  \/ \E e \in Endpoints : ReceiveTrusted(e)
  \/ \E p \in Honest : Broadcast(p, "PEERS")
  \/ \E e \in Endpoints : PeersExchange(e)

PeersInit == Fresh(ChainAddresses(2), [p \in Honest |-> DefaultConfig], {1, 2})

PeersSpec == PeersInit /\ [][PeersNext]_vars

\* Two ring members, B started with A's address and advertising either its
\* bare host or its full URL as publicAddress; sockets can be lost and the
\* embedders can call close().
ShutdownInit ==
  \E pub \in {Address(FALSE, NoPort), Address(TRUE, PortOf(2))} :
    Fresh(ChainAddresses(2),
          [p \in Honest |-> IF p = 2 THEN [DefaultConfig EXCEPT !.publicAddress = pub]
                            ELSE DefaultConfig],
          {1, 2})

ShutdownSpec == ShutdownInit /\ [][FaultNext]_vars

\* A has no address to discover; B is started with A's host without a port
\* and with A's full URL, and with a port range or with none.  Sockets can
\* be lost.
PortlessAddresses ==
  [p \in Honest |-> IF p = 2
                    THEN <<Candidate(Address(FALSE, NoPort), Null),
                           Candidate(Address(TRUE, PortOf(1)), Null)>>
                    ELSE <<>>]

ExpandInit ==
  \E r \in {<<>>, <<PortOf(1), PortOf(2)>>} :
    Fresh(PortlessAddresses, [p \in Honest |-> [DefaultConfig EXCEPT !.range = r]],
          {1, 2})

ExpandSpec == ExpandInit /\ [][FaultNext]_vars

\* B is started with A's listening address listed twice.
TwiceAddresses ==
  [p \in Honest |-> IF p = 2
                    THEN <<Candidate(Address(FALSE, PortOf(1)), Null),
                           Candidate(Address(FALSE, PortOf(1)), Null)>>
                    ELSE <<>>]

\* Two ring members whose embedders broadcast, B dialing A twice so that
\* they hold two connections to each other; A requires confirmations, B
\* does or does not.
MixedInit ==
  \E rcB \in BOOLEAN :
    Fresh(TwiceAddresses,
          [p \in Honest |-> [DefaultConfig EXCEPT
                               !.requireConfirmation = IF p = 1 THEN TRUE ELSE rcB]],
          {1, 2})

MixedNext ==
  \/ \E p \in Honest : Start(p)
  \/ \E i \in 1 .. Len(dials) : Request(i)
  \/ \E i \in 1 .. Len(dials) : Connect(i)
  \/ \E e \in Endpoints : ReceiveHelo(e)
  \/ \E e \in Endpoints : ReceiveTrusted(e)
  \/ \E e \in Endpoints : ReceiveData(e)
  \/ \E e \in Endpoints : ReceiveConfirm(e)
  \/ \E p \in Honest : Broadcast(p, "MESSAGE")
  \/ \E t \in DOMAIN timers : RetryTimer(t)

MixedSpec == MixedInit /\ [][MixedNext]_vars

\* Two ring members, B started with A's address; either process can be
\* killed and started again.
ReconnectInit == Fresh(ChainAddresses(2), [p \in Honest |-> DefaultConfig], {1, 2})

ReconnectNext ==
  \/ \E p \in Honest : Start(p)
  \/ \E i \in 1 .. Len(dials) : Request(i)
  \/ \E i \in 1 .. Len(dials) : Connect(i)
  \/ \E i \in 1 .. Len(dials) : ConnectFailed(i)
  \/ \E e \in Endpoints : ReceiveHelo(e)
  \/ \E e \in Endpoints : ReceiveTrusted(e)
  \/ \E p \in Honest : Kill(p)
  \/ \E p \in Honest : Restart(p)
  \/ \E e \in Endpoints : ErrorEvent(e)
  \/ \E e \in Endpoints : CloseEvent(e)
  \/ \E t \in DOMAIN timers : DiscoverTimer(t)

ReconnectSpec == ReconnectInit /\ [][ReconnectNext]_vars

\* A ring member that listens and whose embedder broadcasts, with or
\* without requireConfirmation, and an outsider who has seen the HELO of
\* another member, connects and injects handshake and session frames.
SessionInit ==
  \E rc \in BOOLEAN :
    Boot([p \in Honest |-> <<>>],
         [p \in Honest |-> [DefaultConfig EXCEPT !.requireConfirmation = rc]],
         {1}, {2})

SessionNext ==
  \/ \E p \in Honest : Start(p)
  \/ \E e \in Endpoints : ReceiveHelo(e)
  \/ \E e \in Endpoints : ReceiveTrusted(e)
  \/ \E e \in Endpoints : ReceiveData(e)
  \/ \E e \in Endpoints : ReceiveConfirm(e)
  \/ \E e \in Endpoints : ReceivePeers(e)
  \/ \E p \in Honest, type \in Types : Broadcast(p, type)
  \/ \E t \in DOMAIN timers : RetryTimer(t)
  \/ \E q \in Honest : MalloryConnect(q)
  \/ \E e \in Endpoints : MalloryHelo(e)
  \/ \E e \in Endpoints : MalloryTrusted(e)
  \/ \E e \in Endpoints : MalloryData(e)

SessionSpec == SessionInit /\ [][SessionNext]_vars

\* ================================================================= claims
\* Endpoint e's handler has just consumed the frame at the head of its inbox.
Handled(e) ==
  /\ Up(e)
  /\ ep[e].inbox # <<>>
  /\ ep'[e].inbox = Tail(ep[e].inbox)
  /\ Head(ep[e].inbox).type # "CLOSE"

HandledHelo(e) == Handled(e) /\ Head(ep[e].inbox).type = "HELO"

\* The HELO at the head of e's inbox parses and the ring signature it
\* carries is over the key it carries.
HeloVerifies(e) ==
  LET body == Head(ep[e].inbox).body
  IN body.publicKey # BadKey /\ RingVerify(body.publicKey, FromBase64(body.signature))

\* C1: every trusted connection stores a public key and a ring signature
\* that the ring public key verifies, and no step that handles a HELO whose
\* signature does not verify turns an untrusted connection trusted.
TrustedIsVerified ==
  \A e \in Endpoints :
    (Up(e) /\ ep[e].trusted) =>
      RingVerify(ep[e].peerPublicKey, ep[e].peerPublicKeySignature)

UnverifiedHeloStep ==
  \A e \in Endpoints :
    (HandledHelo(e) /\ ~HeloVerifies(e) /\ ~ep[e].trusted) => ~ep'[e].trusted

C1_TrustedOnlyWhenVerified == []TrustedIsVerified /\ [][UnverifiedHeloStep]_vars

\* A ring member is trusted by another, while a HELO from outside the ring
\* (a key the ring never signed) has been handled and left its connection
\* untrusted.
C1_Witness ==
  /\ \E e \in Endpoints : Up(e) /\ ep[e].trusted /\ ep[Remote(e)].owner # Mallory
  /\ \E e \in Endpoints :
       /\ Up(e) /\ ep[Remote(e)].owner = Mallory
       /\ used.forged > 0 /\ ep[e].inbox = <<>>
       /\ ~ep[e].trusted /\ ep[e].sock = "open"

\* C2: a connection is trusted under a public key, or announced by a
\* `connection` event, only when the party at its other end holds the
\* matching private key.
C2_NoImpersonation ==
  \A e \in Endpoints :
    (Up(e) /\ ep[Remote(e)].owner = Mallory) =>
      /\ ~ep[e].trusted
      /\ Count(emitted[ep[e].owner], Event("connection", e, NoBody)) = 0

\* C3: no connection stores its owner's own ring signature, and the step
\* that handles a well-formed HELO carrying the receiver's own signature
\* closes the connection, records nothing, leaves the trusted flag alone and
\* sends no TRUSTED.
NoOwnSignatureStored ==
  \A e \in Endpoints :
    Up(e) => ep[e].peerPublicKeySignature # Signature(ep[e].owner)

CarriesOwnSignature(e) ==
  LET body == Head(ep[e].inbox).body
  IN /\ body.publicKey # BadKey
     /\ FromBase64(body.signature) = Signature(ep[e].owner)

OwnSignatureStep ==
  \A e \in Endpoints :
    (HandledHelo(e) /\ CarriesOwnSignature(e)) =>
      /\ ~ep'[e].connected
      /\ ep'[e].sock # "open"
      /\ ep'[e].trusted = ep[e].trusted
      /\ ep'[e].peerPublicKey = ep[e].peerPublicKey
      /\ ep'[e].peerPublicKeySignature = ep[e].peerPublicKeySignature
      /\ \A i \in 1 .. Len(ep'[Remote(e)].inbox) :
           i > Len(ep[Remote(e)].inbox)
             => ep'[Remote(e)].inbox[i].type # "TRUSTED"

ListedSignatures(p) ==
  LET list == getPeerList(ep, p, {})
  IN { list[i].signature : i \in 1 .. Len(list) }

\* C4: every entry of getPeerList(omit) carries a signature outside omit
\* and comes from a connection that is trusted now.
C4_ListedAreTrusted ==
  \A p \in Honest : \A omit \in SUBSET ListedSignatures(p) :
    LET list == getPeerList(ep, p, omit)
    IN \A i \in 1 .. Len(list) :
         /\ list[i].signature \notin omit
         /\ ep[list[i].meta.src].trusted

\* C5: no two rows of a peer table store the same peer ring signature.
C5_NoDuplicateSignature ==
  \A p \in Honest : \A i, j \in 1 .. Len(peers[p]) :
    (/\ i # j
     /\ ep[peers[p][i]].peerPublicKeySignature # Null
     /\ ep[peers[p][i]].peerPublicKeySignature = ep[peers[p][j]].peerPublicKeySignature)
      => FALSE

\* Discovery is quiescent: every peer has started, no dial is pending, no
\* frame is undelivered and every discovery queue is empty.
Quiescent ==
  /\ \A p \in Honest : life[p] # "new"
  /\ dials = <<>>
  /\ \A e \in Endpoints : ep[e].inbox = <<>>
  /\ \A p \in Honest : discoveryAddresses[p] = <<>>

DirectlyTrusted(p, q) ==
  \E i \in 1 .. Len(peers[p]) :
    /\ ep[peers[p][i]].trusted
    /\ ep[peers[p][i]].peerPublicKeySignature = Signature(q)

\* C6: once discovery is quiescent, every two of the started peers hold a
\* trusted connection to each other.
C6_GossipConverges ==
  Quiescent =>
    \A p, q \in Honest :
      (p # q /\ life[p] = "ready" /\ life[q] = "ready") => DirectlyTrusted(p, q)

Connected(p) == \E ev \in DOMAIN emitted[p] : ev.name = "connection"

OneEntry(p, q) ==
  LET list == getPeerList(ep, p, {})
  IN Len(list) = 1 /\ list[1].signature = ToBase64(Signature(q))

\* C7: when B is started with A's address and both hold ring signatures,
\* eventually both A and B have emitted `connection`, and from then on
\* getPeerList() of each returns exactly one entry, with the other's
\* signature.
C7_TwoPeerHandshake ==
  /\ <>(Connected(1) /\ Connected(2))
  /\ []((Connected(1) /\ Connected(2)) => (OneEntry(1, 2) /\ OneEntry(2, 1)))

C7_Witness ==
  /\ Connected(1) /\ Connected(2)
  /\ OneEntry(1, 2) /\ OneEntry(2, 1)
  /\ \A e \in Endpoints : ep[e].inbox = <<>>

\* A frame of the custom type is on its way to endpoint e.
CustomPending(e) ==
  /\ e \in Endpoints
  /\ \E i \in 1 .. Len(ep[e].inbox) : ep[e].inbox[i].type = "CustomX"

\* The owner of e has emitted `message` and the custom event for e, both
\* with the body that was broadcast.
CustomDelivered(e) ==
  /\ e \in Endpoints
  /\ Count(emitted[ep[e].owner], Event("message", e, PlainBody("hello"))) > 0
  /\ Count(emitted[ep[e].owner], Event("CustomX", e, PlainBody("hello"))) > 0

\* C8: a message of a non-reserved type written to a connection (broadcast
\* writes it to every connection the sender trusts, whether called by the
\* embedder at any time or from its `connection` handler) leads to the
\* receiver emitting `message` and the event named by the type, with the
\* body that was broadcast.
C8_CustomEventDelivered ==
  \A e \in ConnIds : CustomPending(e) ~> CustomDelivered(e)

\* A's `connection` handler broadcast the custom message and B's embedder
\* broadcast one too; each has been delivered to the other.
C8_Witness ==
  /\ cfg[1].greet
  /\ Len(ep) >= 2
  /\ CustomDelivered(1) /\ CustomDelivered(2)

\* Frames written by broadcast on a trusted connection.
IsData(f) == f.type \notin {"HELO", "TRUSTED", "CLOSE"}

\* C9: when a data frame is next to be received on a connection, the
\* receiver's peerKey/peerIv are the key and iv the sender encrypted it
\* with, and the signature verifies over the decrypted body.
C9_SessionKeysAgree ==
  \A e \in Endpoints :
    (Up(e) /\ ep[e].inbox # <<>> /\ IsData(Head(ep[e].inbox))) =>
      LET f == Head(ep[e].inbox)
      IN /\ ep[e].trusted
         /\ Len(f.body.layers) > 0
         /\ f.body.layers[Len(f.body.layers)] = <<ep[e].peerKey, ep[e].peerIv>>
         /\ RsaVerify(ep[e].peerPublicKey,
                      AesDecrypt(ep[e].peerKey, ep[e].peerIv, f.body), f.signature)

\* An endpoint that handled two HELOs, and so drew its session key twice,
\* has written a data frame under the second key, and its peer is about to
\* receive it; a data frame is also waiting in the other direction.
C9_Witness ==
  \E e \in Endpoints :
    /\ Up(e) /\ ep[e].gen = 2
    /\ ep[Remote(e)].inbox # <<>>
    /\ Head(ep[Remote(e)].inbox).type = "MESSAGE"
    /\ Head(ep[Remote(e)].inbox).body.layers = <<<<FreshKey(e, 2), FreshIv(e, 2)>>>>
    /\ ep[e].inbox # <<>>
    /\ IsData(Head(ep[e].inbox))

Occurrences(seq, x) == Cardinality({ i \in 1 .. Len(seq) : seq[i] = x })

\* C10: once the CONFIRM of a message has been received on a connection
\* on which the message was written once, no step writes it there again.
ConfirmedNotResent ==
  \A e \in Endpoints : \A h \in ep[e].acked :
    Occurrences(ep[e].wrote, h) = 1 => Occurrences(ep'[e].wrote, h) = 1

C10_ConfirmSuppressesRetry == [][ConfirmedNotResent]_vars

\* A MESSAGE was written once, its CONFIRM came in, and its retry timer has
\* since fired: no timer is left and the message was still written once.
C10_Witness ==
  \E e \in Endpoints : \E h \in ep[e].acked :
    /\ h[1] = "MESSAGE"
    /\ cfg[ep[e].owner].requireConfirmation
    /\ Occurrences(ep[e].wrote, h) = 1
    /\ \A t \in DOMAIN timers : ~(t.kind = "retry" /\ t.e = e)

HandledConfirm(e) == Handled(e) /\ Head(ep[e].inbox).type = "CONFIRM"

\* C11: a step that handles, on a connection, a CONFIRM of a (hash,
\* timestamp) pair already confirmed on that connection leaves the
\* connection's unconfirmedMessages as it was.
ConfirmIdempotentStep ==
  \A e \in Endpoints :
    (HandledConfirm(e) /\ Head(ep[e].inbox).confirm.hash \in ep[e].acked) =>
      ep'[e].unconfirmedMessages = ep[e].unconfirmedMessages

Settled ==
  /\ dials = <<>>
  /\ timers = <<>>
  /\ \A e \in Endpoints :
       (Up(e) /\ Live(ep[e].owner)) =>
         /\ ep[e].inbox = <<>>
         /\ net[ConnOf(e)] = "down" => ep[e].sock = "closed"

\* q completed the handshake with p on a connection that has since been
\* lost with p's process.
LostTrusted(q, p) ==
  \E i \in 1 .. Len(peers[q]) :
    LET e == peers[q][i]
    IN /\ ep[e].peerPublicKeySignature = Signature(p)
       /\ ep[e].peerKey # Null
       /\ ep[e].sock = "closed"
       /\ ~ep[Remote(e)].up

\* C12: when q and p were trusted, p's process was killed (q saw a close
\* with a code other than 1000) and p is listening again, then once the
\* reconnect delay and the discovery pass are over q and p are trusted
\* again.
C12_ReconnectAfterAbnormalClose ==
  \A p, q \in Honest :
    (/\ p # q
     /\ life[p] = "ready" /\ life[q] = "ready"
     /\ LostTrusted(q, p)
     /\ Settled)
      => (DirectlyTrusted(q, p) /\ DirectlyTrusted(p, q))

\* The part of C12 about the survivor's own restart of discovery: the timer
\* armed by the 'close' handler starts a dial.
RestartDialsStep ==
  \A t \in DOMAIN timers :
    (t.kind = "discover" /\ (t \notin DOMAIN timers' \/ timers'[t] < timers[t]))
      => Len(dials') > Len(dials)

RestartDials == [][RestartDialsStep]_vars

\* Both ends of the connection of endpoint e belong to the same peer.
SelfConnection(e) == ep[e].owner # Mallory /\ ep[e].owner = ep[Remote(e)].owner

\* C13: a peer that dials its own listening address never has a row for
\* that connection in its peer table (self.peers): with no other peer
\* around the table's size stays 0, before and after the close.
C13_SelfConnectRejected ==
  \A p \in Honest : \A i \in 1 .. Len(peers[p]) : ~SelfConnection(peers[p][i])


\* The HELO at the head of e's inbox is one that admission refuses: it does
\* not parse, or the ring public key does not verify its signature (a HELO
\* carrying the receiver's own signature is the self-connect case instead).
HeloFails(e) ==
  /\ HandledHelo(e)
  /\ ~HeloVerifies(e)
  /\ \/ Head(ep[e].inbox).body.publicKey = BadKey
     \/ ~isOwnSignature(ep[e].owner,
                        ToBase64(FromBase64(Head(ep[e].inbox).body.signature)))

AdmissionFailureStep ==
  \A e \in Endpoints :
    (HeloFails(e) /\ ep[e].connected /\ ~ep[e].trusted) =>
      /\ ~ep'[e].connected
      /\ ~ep'[e].trusted
      /\ emitted' = emitted
      /\ \A i \in 1 .. Len(ep'[Remote(e)].inbox) :
           ep'[Remote(e)].inbox[i].type # "TRUSTED"

\* C14: a step that handles a HELO which fails to parse or to verify closes
\* the connection, sends no TRUSTED, emits no event and leaves the
\* connection untrusted.
C14_AdmissionFailureCloses == [][AdmissionFailureStep]_vars


\* The handler of endpoint e has just consumed a data frame.
HandledData(e) ==
  Handled(e) /\ Head(ep[e].inbox).type \notin {"HELO", "TRUSTED", "CONFIRM", "PEERS"}

\* The data frame at the head of trusted endpoint e's inbox is not
\* encrypted with the key and iv the peer gave for this session, or its
\* signature is not the peer's over the decrypted body.
FrameFails(e) ==
  LET f == Head(ep[e].inbox)
  IN /\ ep[e].trusted
     /\ \/ f.body.layers = <<>>
        \/ f.body.layers[Len(f.body.layers)] # <<ep[e].peerKey, ep[e].peerIv>>
        \/ f.signature.by # ep[e].peerPublicKey
        \/ f.signature.over # [f.body EXCEPT !.layers = SubSeq(@, 1, Len(@) - 1)]

FrameDroppedStep ==
  \A e \in Endpoints :
    (HandledData(e) /\ FrameFails(e)) =>
      /\ emitted' = emitted
      /\ timers' = timers
      /\ ep'[e].wrote = ep[e].wrote
      /\ ep'[Remote(e)].inbox = ep[Remote(e)].inbox
      /\ ep'[e].connected = ep[e].connected /\ ep'[e].sock = ep[e].sock
      /\ ep'[e].trusted
      /\ <<ep'[e].key, ep'[e].iv, ep'[e].peerKey, ep'[e].peerIv>>
           = <<ep[e].key, ep[e].iv, ep[e].peerKey, ep[e].peerIv>>
      /\ ep'[e].unconfirmedMessages = ep[e].unconfirmedMessages

\* C15: a step that handles a data frame whose decryption or body-signature
\* verification fails emits no event, sends no CONFIRM, and leaves the
\* connection open and trusted with its keys and unconfirmed list as they
\* were.
C15_FailureConfinedToFrame == [][FrameDroppedStep]_vars

\* A trusted connection holding session keys and an unconfirmed message has
\* dropped a data frame, and it is still open with nothing emitted for it.
C15_Witness ==
  \E e \in Endpoints :
    /\ Up(e) /\ ep[e].trusted /\ ep[e].connected
    /\ ep[e].dropped = 1
    /\ ep[e].peerKey # Null
    /\ ep[e].unconfirmedMessages # <<>>
    /\ \A ev \in DOMAIN emitted[ep[e].owner] : ~(ev.name = "message" /\ ev.conn = e)


\* C16: every trusted connection holds the peer's public key and ring
\* signature, its own key and iv, and the key and iv received from the peer.
C16_TrustedHasAllKeys ==
  \A e \in Endpoints :
    (Up(e) /\ ep[e].trusted) =>
      /\ ep[e].peerPublicKey # Null /\ ep[e].peerPublicKeySignature # Null
      /\ ep[e].key # Null /\ ep[e].iv # Null
      /\ ep[e].peerKey # Null /\ ep[e].peerIv # Null


\* What broadcast wrote on e in this step.
Written(e) == SubSeq(ep'[e].wrote, Len(ep[e].wrote) + 1, Len(ep'[e].wrote))

UntrustedGateStep ==
  \A e \in Endpoints :
    (Up(e) /\ ~ep[e].trusted) =>
      /\ \A i \in 1 .. Len(Written(e)) : Written(e)[i][1] = "HELO"
      /\ (Handled(e) /\ Head(ep[e].inbox).type # "HELO") =>
           /\ ep'[e] = [ep[e] EXCEPT !.inbox = Tail(@)]
           /\ ep'[Remote(e)] = ep[Remote(e)]
           /\ discoveryAddresses' = discoveryAddresses
           /\ dials' = dials
           /\ timers' = timers
           /\ emitted' = emitted

\* C17: on a connection that is not trusted, broadcast writes nothing but
\* HELO, and a step that handles any other received frame only consumes it:
\* no key is recorded, the unconfirmed list and the discovery queue stay as
\* they were, nothing is sent back and no event is emitted.
C17_OnlyHeloBeforeTrusted == [][UntrustedGateStep]_vars

\* The outsider's session frame has been handled while none of its
\* connections was trusted, and a HELO was broadcast on one of them.
C17_Witness ==
  /\ used.injected > 0
  /\ \A e \in Endpoints : Up(e) => (~ep[e].trusted /\ ep[e].inbox = <<>>)
  /\ \E e \in Endpoints : Up(e) /\ ep[e].connected /\ ep[e].wrote # <<>>


\* p's application calls close() in this step.
Closing(p) == life[p] = "ready" /\ life'[p] = "closed"

ShutdownStep ==
  /\ \A p \in Honest :
       Closing(p) =>
         \A i \in 1 .. Len(peers[p]) :
           LET e == peers[p][i]
           IN \/ ep'[e].threw
              \/ /\ ~ep'[e].connected
                 /\ ep[e].connected => ep'[e].sock = "closing"
                 /\ (ep[e].connected /\ Up(Remote(e)) /\ ep[Remote(e)].sock # "closed"
                       /\ net[ConnOf(e)] = "up") =>
                      /\ ep'[Remote(e)].inbox # <<>>
                      /\ ep'[Remote(e)].inbox[Len(ep'[Remote(e)].inbox)] = CloseFrame
  /\ \A e \in Endpoints :
       (Up(e) /\ net[ConnOf(e)] = "up" /\ ep[e].sock # "closed" /\ ep'[e].sock = "closed") =>
         /\ Head(ep[e].inbox).code = NormalClosure
         /\ discoveryAddresses' = discoveryAddresses
         /\ timers' = timers

\* C18: a step in which close() is called leaves every row of the peer
\* table whose close() did not throw disconnected, with a close frame of
\* the normal-closure code on its way, and shuts the listener; a step that
\* ends a connection whose socket was not lost has read that code and adds
\* nothing to the discovery queue and arms no discovery timer.
C18_Shutdown ==
  /\ [][ShutdownStep]_vars
  /\ [](\A p \in Honest :
         life[p] = "closed" => p \notin ListenerAt(Address(FALSE, PortOf(p))))

\* A peer that called close() has one connection whose close() threw and a
\* later one that ended on both sides with nothing re-enqueued.
C18_Witness ==
  \E p \in Honest : \E i, j \in 1 .. Len(peers[p]) :
    /\ life[p] = "closed" /\ i < j
    /\ ep[peers[p][i]].threw
    /\ ep[peers[p][j]].sock = "closed" /\ ep[Remote(peers[p][j])].sock = "closed"
    /\ net[ConnOf(peers[p][j])] = "up"
    /\ \A t \in DOMAIN timers : t.kind # "discover"


\* Entry i of e's unconfirmed list awaits a confirmation: e's owner
\* requires confirmations, the connection is open and trusted, and the
\* entry is not itself a CONFIRM.
Awaited(e, i) ==
  /\ e \in Endpoints
  /\ Up(e) /\ ep[e].connected /\ ep[e].trusted
  /\ cfg[ep[e].owner].requireConfirmation
  /\ i \in 1 .. Len(ep[e].unconfirmedMessages)
  /\ ep[e].unconfirmedMessages[i].type # "CONFIRM"

\* A retry timer is armed for every awaited entry.
RetryArmed ==
  \A e \in Endpoints : \A i \in 1 .. Len(ep[e].unconfirmedMessages) :
    Awaited(e, i) =>
      \E t \in DOMAIN timers :
        /\ t.kind = "retry" /\ t.e = e
        /\ t.msg.hash = ep[e].unconfirmedMessages[i].hash
        /\ t.msg.timestamp = ep[e].unconfirmedMessages[i].timestamp

\* A step in which a retry timer rebroadcasts: the timer's message was in
\* its target's unconfirmed list when it fired, and it is written to the
\* target again.
RetryStep ==
  used'.retries # used.retries =>
    \E t \in DOMAIN timers :
      /\ t.kind = "retry"
      /\ Found(ep[t.e].unconfirmedMessages, t.msg)
      /\ Occurrences(ep'[t.e].wrote, t.msg.hash)
           = Occurrences(ep[t.e].wrote, t.msg.hash) + 1

\* Positions of an unconfirmed list: what one peer sends and confirms.
Slots == 1 .. 2 * (MaxBroadcasts + MaxRetries + 1)

SomeAwaited == \E e \in ConnIds : \E i \in Slots : Awaited(e, i)

Matching(list, c) ==
  { i \in 1 .. Len(list) : list[i].hash = c.hash /\ list[i].timestamp = c.timestamp }

\* `list` without the last of its entries matching c.
WithoutLastMatch(list, c) ==
  IF Matching(list, c) = {} THEN list
  ELSE LET k == CHOOSE i \in Matching(list, c) : \A j \in Matching(list, c) : j <= i
       IN [i \in 1 .. Len(list) - 1 |-> IF i < k THEN list[i] ELSE list[i + 1]]

OthersUntouched(e) ==
  \A o \in Endpoints :
    o # e => ep'[o].unconfirmedMessages = ep[o].unconfirmedMessages

ConfirmIntakeAlways ==
  \A e \in Endpoints :
    HandledConfirm(e) =>
      /\ ep'[e].unconfirmedMessages =
           WithoutLastMatch(ep[e].unconfirmedMessages, Head(ep[e].inbox).confirm)
      /\ OthersUntouched(e)

ConfirmIntakeStep ==
  \A e \in Endpoints :
    HandledConfirm(e) =>
      /\ ep'[e].unconfirmedMessages =
           IF ep[e].trusted /\ cfg[ep[e].owner].requireConfirmation
           THEN WithoutLastMatch(ep[e].unconfirmedMessages, Head(ep[e].inbox).confirm)
           ELSE ep[e].unconfirmedMessages
      /\ OthersUntouched(e)

FrameAccepted(e) == HandledData(e) /\ ~FrameFails(e)

\* The frames put on the wire towards endpoint o in this step.
Arrived(o) == SubSeq(ep'[o].inbox, Len(ep[o].inbox) + 1, Len(ep'[o].inbox))

\* In this step e's owner sends one CONFIRM with the pair of the frame it
\* just accepted on e, on e's connection and nowhere else.
ConfirmsOnce(e) ==
  LET f == Head(ep[e].inbox)
  IN /\ Len(Arrived(Remote(e))) = 1
     /\ Arrived(Remote(e))[1].type = "CONFIRM"
     /\ Arrived(Remote(e))[1].confirm = [hash |-> f.hash, timestamp |-> f.timestamp]
     /\ \A o \in Endpoints : (o # Remote(e) /\ o # e) => ep'[o].inbox = ep[o].inbox

SendsNothing(e) ==
  \A o \in Endpoints : o # e => ep'[o].inbox = ep[o].inbox

ConfirmByOwnFlagStep ==
  \A e \in Endpoints :
    FrameAccepted(e) =>
      IF cfg[ep[e].owner].requireConfirmation THEN ConfirmsOnce(e) ELSE SendsNothing(e)

\* C21 as stated: a step that accepts a data frame on a peer whose own
\* requireConfirmation is true sends exactly one CONFIRM with the frame's
\* (hash, timestamp), on the connection the frame came in on and on no
\* other.
C21_ConfirmByReceiverFlag == [][ConfirmByOwnFlagStep]_vars

ConfirmStep ==
  \A e \in Endpoints :
    FrameAccepted(e) =>
      IF ep[e].requireConfirmation THEN ConfirmsOnce(e) ELSE SendsNothing(e)

\* C21: a step that accepts a data frame on a connection whose peer
\* announced requireConfirmation in its TRUSTED sends exactly one CONFIRM
\* with the frame's (hash, timestamp), on that connection and on no other;
\* when the peer announced none, no CONFIRM is sent, whatever the
\* receiver's own setting.
C21_ConfirmOnArrivalConnection == [][ConfirmStep]_vars

\* A peer without requireConfirmation has accepted a frame from a peer with
\* it, and its CONFIRM has been handled there.
C21_Witness ==
  \E e \in Endpoints : \E h \in ep[e].acked :
    /\ Up(e) /\ cfg[ep[e].owner].requireConfirmation
    /\ ~cfg[ep[Remote(e)].owner].requireConfirmation
    /\ h \in { ep[e].wrote[i] : i \in 1 .. Len(ep[e].wrote) }
    /\ \E ev \in DOMAIN emitted[ep[Remote(e)].owner] :
         ev.name = "message" /\ ev.conn = Remote(e)


\* The entries of a `wrote` list that are CONFIRMs, and those that are not.
ConfirmsIn(w) == { i \in 1 .. Len(w) : w[i][1] = "CONFIRM" }
OthersIn(w) == { i \in 1 .. Len(w) : w[i][1] # "CONFIRM" }

\* No retry timer holds a CONFIRM, and an endpoint has written at most as
\* many CONFIRMs as its peer has written other frames to it.
ConfirmsBounded ==
  /\ \A t \in DOMAIN timers : t.kind = "retry" => t.msg.type # "CONFIRM"
  /\ \A e \in Endpoints :
       (Up(e) /\ Up(Remote(e))) =>
         Cardinality(ConfirmsIn(ep[e].wrote)) <= Cardinality(OthersIn(ep[Remote(e)].wrote))

ConfirmUnansweredStep ==
  \A e \in Endpoints :
    HandledConfirm(e) =>
      /\ timers' = timers
      /\ ep'[e].wrote = ep[e].wrote
      /\ \A o \in Endpoints : o # e => ep'[o] = ep[o]

\* C22: no retry timer is ever armed for a CONFIRM, a step that handles a
\* CONFIRM sends nothing and arms nothing, and the CONFIRMs a peer has sent
\* on a connection never outnumber the frames it was sent there.
C22_ConfirmBypassesRetry == []ConfirmsBounded /\ [][ConfirmUnansweredStep]_vars

\* Both peers require confirmations; a message was confirmed, the CONFIRM
\* was handled, nothing is in flight and no timer is left.
C22_Witness ==
  \E e \in Endpoints : \E h \in ep[e].acked :
    /\ h[1] = "MESSAGE"
    /\ cfg[ep[e].owner].requireConfirmation /\ cfg[ep[Remote(e)].owner].requireConfirmation
    /\ ConfirmsIn(ep[Remote(e)].wrote) # {}
    /\ timers = <<>>
    /\ \A o \in Endpoints : ep[o].inbox = <<>>


\* The send callback of a broadcast reports a write error in this step.
WriteErrorReported == used'.writeErrors # used.writeErrors

ResubmittedStep ==
  WriteErrorReported =>
    \E e \in Endpoints :
      /\ ep[e].wrote # <<>>
      /\ Len(ep'[e].wrote) = Len(ep[e].wrote) + 1
      /\ ep'[e].wrote[Len(ep'[e].wrote)] = ep[e].wrote[Len(ep[e].wrote)]

\* C23: a step in which the send callback of a broadcast to a trusted
\* connection is given a write error hands the same message to broadcast
\* again: it is written once more.
C23_ResubmitOnWriteError == [][ResubmittedStep]_vars


\* The client.connect calls started in this step.
Started ==
  { d \in { dials'[i] : i \in 1 .. Len(dials') } :
      d.conn = Null /\ Occurrences(dials', d) > Occurrences(dials, d) }

SkippedNotDialedStep ==
  \A d \in Started : ~isConnectedTo(d.from, d.peerToDiscover)

\* C24: no dial is started for a candidate whose signature is the peer's own
\* or the ring signature of a peer it is already connected to.
C24_ConnectedCandidateSkipped == [][SkippedNotDialedStep]_vars


\* Candidates without a port: a bare host or scheme://host, unsigned or
\* carrying the ring signature of a member.
Portless ==
  { Candidate(Address(proto, NoPort), sig) :
      proto \in BOOLEAN, sig \in {Null} \cup { ToBase64(Signature(q)) : q \in Honest } }

PortsFor(p) ==
  IF ValidRange(cfg[p].range) THEN cfg[p].range[1] .. cfg[p].range[2] ELSE {PortOf(p)}

\* The expansion of c by p on top of its present queue adds, in port order
\* and once each, exactly the candidates of PortsFor(p) with c's signature
\* that are not queued, not connected and not p itself.
ExpandsAsSpecified(p, c) ==
  LET queue == discoveryAddresses[p]
      out == Expansion(p, queue, c)
      added == SubSeq(out, Len(queue) + 1, Len(out))
      wanted(port) == Candidate(FormatParsed(c.address, port), c.signature)
      kept == { port \in PortsFor(p) :
                  /\ ~inDiscoveryAddresses(queue, wanted(port))
                  /\ ~isConnectedTo(p, wanted(port))
                  /\ ~isOwnSignature(p, c.signature) }
  IN /\ Len(out) >= Len(queue)
     /\ SubSeq(out, 1, Len(queue)) = queue
     /\ Len(added) = Cardinality(kept)
     /\ \A port \in kept : Occurrences(added, wanted(port)) = 1
     /\ \A i \in 1 .. Len(added) :
          /\ added[i].address.port # NoPort
          /\ added[i].signature = c.signature
          /\ \A j \in 1 .. Len(added) :
               i < j => added[i].address.port < added[j].address.port

\* C25 (expansion): in every reachable state, expanding any port-less
\* candidate yields one candidate per port of the range (of the own
\* listening port without a range) with the same signature, less those
\* queued, connected or self; every one of them has a port;
\* and no dial is ever outstanding for a candidate without a port.
C25_PortExpansion ==
  /\ \A p \in Honest : \A c \in Portless : Live(p) => ExpandsAsSpecified(p, c)
  /\ \A i \in 1 .. Len(dials) : dials[i].peerToDiscover.address.port # NoPort

\* A dial started by B for a candidate that only the expansion can have
\* produced (its own listening port), the other port of the range having
\* been omitted as already queued.
C25_Witness ==
  /\ ValidRange(cfg[2].range)
  /\ \E i \in 1 .. Len(dials) :
       /\ dials[i].from = 2
       /\ dials[i].peerToDiscover = Candidate(Address(TRUE, PortOf(2)), Null)


\* A discovery pass of p is in progress while one of its dials is awaited.
PassInProgress(p) == \E i \in 1 .. Len(dials) : dials[i].from = p

\* C26: the discovering flag of a peer is false in every state in which
\* none of its discovery passes is in progress (a pass that drains the
\* queue sets it back to false).
C26_FlagTracksPass ==
  \A p \in Honest : discovering[p] => PassInProgress(p)


\* The peers list of the TRUSTED frame that p is about to accept on e.
Gossiped(e) ==
  IF /\ e \in Endpoints
     /\ CanReceive(e)
     /\ Head(ep[e].inbox).type = "TRUSTED"
     /\ ep[e].trusted
     /\ Head(ep[e].inbox).body.iv # NoCipher
     /\ Head(ep[e].inbox).body.key # NoCipher
     /\ RsaCanDecrypt(ep[e].owner, Head(ep[e].inbox).body.iv)
     /\ RsaCanDecrypt(ep[e].owner, Head(ep[e].inbox).body.key)
  THEN Head(ep[e].inbox).body.peers
  ELSE <<>>

\* The entries of a list that p has to queue: not connected, not p itself,
\* not in its queue and not queued earlier in the same list.
Unknown(p, queue, entries) ==
  { i \in 1 .. Len(entries) :
      /\ ~isConnectedTo(p, entries[i])
      /\ ~isOwnSignature(p, entries[i].signature)
      /\ ~inDiscoveryAddresses(queue, entries[i])
      /\ \A j \in 1 .. i - 1 : entries[j] # entries[i] }

IntakeAsSpecified(p, queue, entries) ==
  LET out == Intake(p, queue, entries)
      added == SubSeq(out, Len(queue) + 1, Len(out))
      U == Unknown(p, queue, entries)
  IN /\ Len(out) >= Len(queue)
     /\ SubSeq(out, 1, Len(queue)) = queue
     /\ Len(added) = Cardinality(U)
     /\ \A i \in U : added[Cardinality({ j \in U : j <= i })] = entries[i]

\* C27: the intake of the peers list of an accepted TRUSTED message appends
\* to the discovery queue exactly the entries that are not connected, not
\* queued and not the receiver, in list order, and keeps what was queued in
\* place.
C27_GossipIntakeFilter ==
  \A e \in Endpoints :
    IntakeAsSpecified(ep[e].owner, discoveryAddresses[ep[e].owner], Gossiped(e))

\* A peer is about to accept a list of which it has to queue two entries.
C27_Witness ==
  \E e \in Endpoints :
    Cardinality(Unknown(ep[e].owner, discoveryAddresses[ep[e].owner], Gossiped(e))) >= 2


\* The dials of p that have not been answered yet.
Outstanding(p) == { i \in 1 .. Len(dials) : dials[i].from = p }

\* C28: discovery works on one candidate at a time: no peer ever has more
\* than one outbound dial outstanding.
C28_OneDialAtATime ==
  \A p \in Honest : Cardinality(Outstanding(p)) <= 1


\* The 'close' handler of the connection of e runs in this step.
CloseHandled(e) ==
  /\ Live(ep[e].owner)
  /\ ep[e].sock # "closed"
  /\ ep'[e].sock = "closed"

RestartTimer(p) == Timer("discover", p, NoMessage)

ReconnectTriggerStep ==
  \A e \in Endpoints :
    CloseHandled(e) /\ ep[e].peerPublicKeySignature # Null =>
      LET p == ep[e].owner
      IN IF net[ConnOf(e)] = "down"
         THEN /\ discoveryAddresses'[p] =
                   Append(discoveryAddresses[p],
                          Candidate(ep[e].originalAddress,
                                    ToBase64(ep[e].peerPublicKeySignature)))
              /\ ~PassInProgress(p) =>
                   Count(timers', RestartTimer(p)) = Count(timers, RestartTimer(p)) + 1
         ELSE /\ discoveryAddresses'[p] = discoveryAddresses[p]
              /\ timers' = timers

\* C29: a close with a code other than 1000 on a connection that has a ring
\* signature stored appends {its stored address, its stored signature} to
\* the discovery queue and, if no discovery pass of the peer is in progress,
\* schedules a discovery restart; a close with code 1000 changes neither the
\* queue nor the timers.
C29_ReconnectTrigger == [][ReconnectTriggerStep]_vars


\* A retry timer finds its message unconfirmed and retransmits in this step.
Retransmits == used'.retries # used.retries

RetryOnlyToTargetStep ==
  Retransmits =>
    \E t \in DOMAIN timers :
      /\ t.kind = "retry"
      /\ Found(ep[t.e].unconfirmedMessages, t.msg)
      /\ \A e \in Endpoints \ {t.e} : ep'[e].wrote = ep[e].wrote

\* C30: when the retry timer of a message fires for a connection that has
\* not confirmed it, the retransmission is written to that connection only.
C30_RetryOnlyToTarget == [][RetryOnlyToTargetStep]_vars


\* Every connection of p that stored ring signature sig has been closed or
\* has failed, and there is at least one.
AllClosedTo(p, sig) ==
  LET rows == { peers[p][i] : i \in 1 .. Len(peers[p]) }
      toSig == { e \in rows : /\ ep[e].peerPublicKeySignature # Null
                              /\ ToBase64(ep[e].peerPublicKeySignature) = sig }
  IN /\ toSig # {}
     /\ \A e \in toSig : ep[e].sock \in {"closed", "errored"}

\* C31: a peer whose connections to P have all closed is not connected to
\* P: isConnectedTo is false for a candidate carrying P's ring signature.
C31_ClosedIsNotConnected ==
  \A p \in Honest : \A q \in Honest \ {p} :
    (Live(p) /\ AllClosedTo(p, ToBase64(Signature(q)))) =>
      ~isConnectedTo(p, Candidate(Address(FALSE, PortOf(q)), ToBase64(Signature(q))))


AbnormalCloseSurvivedStep ==
  \A e \in Endpoints :
    (/\ CloseHandled(e)
     /\ net[ConnOf(e)] = "down"
     /\ ep[e].peerPublicKeySignature = Null) =>
      /\ life'[ep[e].owner] = life[ep[e].owner]
      /\ \A f \in Endpoints \ {e} : ep[f].owner = ep[e].owner => ep'[f] = ep[f]

\* C32: the close handler run with a code other than 1000 on a connection
\* that has no ring signature stored completes: the peer keeps running and
\* its other connections are as they were.
C32_CloseBeforeHeloHandled == [][AbnormalCloseSurvivedStep]_vars


\* C33: an unconfirmed list holds only messages that await a confirmation:
\* no CONFIRM message is in a list, and the lists of a peer that does not
\* require confirmation are empty.
C33_OnlyAwaitedListed ==
  \A e \in Endpoints :
    ep[e].owner \in Honest =>
      \A i \in 1 .. Len(ep[e].unconfirmedMessages) :
        /\ ep[e].unconfirmedMessages[i].type # "CONFIRM"
        /\ cfg[ep[e].owner].requireConfirmation


\* PEERS frames written on e: the requests its embedder broadcast and the
\* replies of its PEERS branch, which carry a peers list.
PeersRequests(e) ==
  Cardinality({ i \in 1 .. Len(ep[e].wrote) :
                  ep[e].wrote[i][1] = "PEERS" /\ "peers" \notin DOMAIN ep[e].wrote[i][2] })
PeersReplies(e) ==
  Cardinality({ i \in 1 .. Len(ep[e].wrote) :
                  ep[e].wrote[i][1] = "PEERS" /\ "peers" \in DOMAIN ep[e].wrote[i][2] })

\* C34: a PEERS exchange ends with the reply: an end of a connection has
\* written at most one PEERS reply for each PEERS request of the other end.
C34_PeersExchangeTerminates ==
  \A e \in Endpoints : PeersReplies(e) <= PeersRequests(Remote(e))


UnauthenticatedConfirmStep ==
  \A e \in Endpoints :
    (HandledConfirm(e) /\ FrameFails(e)) =>
      ep'[e].unconfirmedMessages = ep[e].unconfirmedMessages

\* C35: a step that handles a CONFIRM frame whose body is not encrypted
\* with the connection's receive key, or whose signature is not the peer's
\* over the body, removes nothing from the connection's unconfirmed list.
C35_ConfirmAuthenticated == [][UnauthenticatedConfirmStep]_vars


Discovered == Event("discovered", Null, NoBody)

DiscoveredOnceAtEndStep ==
  \A p \in Honest :
    Count(emitted'[p], Discovered) # Count(emitted[p], Discovered) =>
      /\ Count(emitted'[p], Discovered) = Count(emitted[p], Discovered) + 1
      /\ discoveryAddresses'[p] = <<>>
      /\ \A i \in 1 .. Len(dials') : dials'[i].from # p

\* C36: a step emits `discovered` at most once for a peer, and when it does
\* the peer's queue is empty and none of its dials is outstanding.
C36_DiscoveredOnceAtEnd == [][DiscoveredOnceAtEndStep]_vars


\* A discovery restart timer of p fires in this step.
RestartFires(p) == Count(timers', RestartTimer(p)) < Count(timers, RestartTimer(p))

QuietAfterCloseStep ==
  \A p \in Honest :
    (/\ life[p] = "closed"
     /\ \/ RestartFires(p)
        \/ \E e \in Endpoints : ep[e].owner = p /\ CloseHandled(e)) =>
      /\ \A d \in Started : d.from # p
      /\ peers'[p] = peers[p]

\* C37: once close() has returned, neither a discovery restart scheduled
\* before it nor a close event of one of the peer's connections starts a
\* dial or adds a row to the peer table.
C37_QuietAfterClose == [][QuietAfterCloseStep]_vars


====
